---- MODULE Spec2Model ----
(***************************************************************************)
(* Browser video cutter: the job queue runner (processJobs), its pause /   *)
(* resume / cancel gate, the ffmpeg engine adapter (BrowserFFmpeg) and the *)
(* engine loader (ensureCoreReady).                                        *)
(*                                                                         *)
(* The program is single-threaded JavaScript.  One action of this model is *)
(* one macrotask: a user event handler run to its first pending await, or  *)
(* the continuation of an async function after an external event (a worker *)
(* reply, a timer, a media event).  A continuation that only waits for an  *)
(* already settled promise is a microtask: it runs before any further      *)
(* macrotask, which MicrotaskPending enforces.                             *)
(***************************************************************************)
EXTENDS Integers, Sequences, FiniteSets, TLC

\* Bounds of the model.
MaxJobs == 2      \* jobs of one validated job list
MaxRuns == 2      \* runs started
MaxTime == 4      \* largest time value typed into a form, in milliseconds
MaxRows == 2      \* rows of the multi-range form
MaxText == 5      \* characters of a time typed as text
MaxName == 2      \* characters of the stem of a source file name
MaxPattern == 2   \* characters and tokens of a naming pattern before its suffix

\* One engine instance at mount and one per reset; a run accepts one cancel.
MaxInst == MaxRuns + 1

\* The most recent runs kept by addHistoryEntry.
HISTORY_LIMIT == 20

\* The tolerance of the validators, 0.001 s: times are counted in milliseconds.
DURATION_EPSILON == 1

VARIABLES
    ui,        \* React state of the component (useState cells, outputsRef)
    refs,      \* useRef cells: ffmpegRef, coreLoadPromiseRef, queueControlRef, progressContextRef
    engines,   \* BrowserFFmpeg instances: wrapper flag, worker, working storage
    loads,     \* in-flight ensureCoreReady load promises
    runs,      \* processJobs activations: position and locals
    form,      \* the input fields of one mode tab and videoDurationSeconds
    validation, \* the JobValidation last returned by a validator
    call,      \* a call of one of the text helpers: its name and arguments
    returned   \* what that call returned

vars == <<ui, refs, engines, loads, runs, form, validation, call, returned>>

RunIds == 1..MaxRuns
LoadIds == 1..MaxInst
InstIds == 1..MaxInst

St == [ui |-> ui, refs |-> refs, engines |-> engines, loads |-> loads, runs |-> runs]

Becomes(t) ==
    /\ ui' = t.ui
    /\ refs' = t.refs
    /\ engines' = t.engines
    /\ loads' = t.loads
    /\ runs' = t.runs
    /\ UNCHANGED <<form, validation, call, returned>>

\* Array.prototype.filter on the clip's verifiedPlayable flag.
RECURSIVE SelectClips(_, _)
SelectClips(s, playable) ==
    IF s = <<>> THEN <<>>
    ELSE IF Head(s).verifiedPlayable = playable
         THEN <<Head(s)>> \o SelectClips(Tail(s), playable)
         ELSE SelectClips(Tail(s), playable)

NoError == [message |-> "none", partial |-> 0]

\* queueControlRef / progressContextRef initial values.
queueControlInit == [paused |-> FALSE, cancelled |-> FALSE]
progressContextInit == [mode |-> "idle", clipIndex |-> 0, totalClips |-> 1]

NoLoad == [inst |-> 0, stage |-> "none"]

\* A processJobs activation that has not started.  mode is "single" or
\* "queue": the code treats the modes auto and multi alike everywhere (queue
\* buttons, aggregated progress), so "queue" stands for either.
\* transcoded, waited, cancelAt and unloadedCall record what the activation
\* did, for the properties below; the code does not read them.
\* result is the terminal status line of the run (setStatus); the status
\* text is write-only display state and is modelled at these lines only.
IdleRun ==
    [pc |-> "idle", mode |-> "idle", jobs |-> 0, index |-> 0, processor |-> 0,
     file |-> 0, inputPath |-> FALSE, generated |-> <<>>, awaits |-> 0,
     loaded |-> FALSE,
     fault |-> "none", transcoded |-> <<>>, waited |-> FALSE, cancelAt |-> "none",
     unloadedCall |-> FALSE, result |-> "none"]

ActivePcs == {"loading", "afterLoad", "fetchFile", "writeFile", "gate", "exec",
              "del", "verify", "cleanup"}
\* Positions at which the run awaits a reply of the engine worker.
EnginePcs == {"writeFile", "exec", "del", "cleanup"}
\* transcodeClip is in flight: "exec" is FFmpeg.exec followed by
\* FFmpeg.readFile, "del" the deleteFile of the temporary output.
TranscodePcs == {"exec", "del"}

InputPath(r) == <<"input", r>>
OutputPath(j) == <<"output", j>>

FreshEngine == [worker |-> FALSE, loaded |-> FALSE, files |-> {}]

(***************************************************************************)
(* Job builder: the three validators                                       *)
(***************************************************************************)
\* The text of an input field: blank, text no time format accepts ("abc"),
\* a number with a minus sign ("-1"), or a time of value milliseconds.
Blank == [kind |-> "blank", value |-> 0]
Text == [kind |-> "text", value |-> 0]
Minus == [kind |-> "minus", value |-> 1]
Time(n) == [kind |-> "time", value |-> n]

Seconds(n) == n * 1000 * DURATION_EPSILON

MinLeft(a, b) == a

Min(a, b) == IF a < b THEN a ELSE b
Max(a, b) == IF a > b THEN a ELSE b

\* parseTimeToSeconds: none of its three patterns accepts a sign or letters.
parseTimeToSeconds(input) ==
    IF input.kind = "time" THEN [valid |-> TRUE, seconds |-> input.value]
    ELSE [valid |-> FALSE, seconds |-> 0]

\* videoDurationSeconds: null until the metadata of the video is read.
NoDuration == [known |-> FALSE, seconds |-> 0]
Duration(n) == [known |-> TRUE, seconds |-> n]

\* JobValidation | null: fail(message) returns null and sets the error.
Fail(message) == [ok |-> FALSE, jobs |-> <<>>, notices |-> <<>>, error |-> message]
Valid(jobs, notices) == [ok |-> TRUE, jobs |-> jobs, notices |-> notices, error |-> "none"]
NoValidation == [ok |-> FALSE, jobs |-> <<>>, notices |-> <<>>, error |-> "not validated"]

ClipJob(index, startSeconds, durationSeconds) ==
    [index |-> index, startSeconds |-> startSeconds, durationSeconds |-> durationSeconds]

Notice(row, text) == [row |-> row, text |-> text]

unclampedSingleJob(startSeconds, durationSeconds, remaining, notices) ==
    Valid(<<ClipJob(0, startSeconds, durationSeconds)>>, notices)

\* The end of validateSingleCut when the total duration is known: the
\* requested duration is cut down to what remains of the video.
clampedSingleJob(startSeconds, durationSeconds, remaining, notices) ==
    IF durationSeconds > remaining + DURATION_EPSILON
    THEN Valid(<<ClipJob(0, startSeconds, remaining)>>,
               Append(notices, Notice(1, "Duration ajustada automaticamente")))
    ELSE Valid(<<ClipJob(0, startSeconds, durationSeconds)>>, notices)

validateSingleCut(f) ==
    LET T == f.videoDurationSeconds
        startRaw == f.startInput
        durationRaw == f.durationInput
        start == IF startRaw.kind # "blank" THEN parseTimeToSeconds(startRaw)
                 ELSE [valid |-> TRUE, seconds |-> 0]
        startSeconds == start.seconds
        notices1 == IF startRaw.kind = "blank"
                    THEN <<Notice(1, "Start vacio: se usa 00:00:00")>> ELSE <<>>
        duration == IF durationRaw.kind # "blank" THEN parseTimeToSeconds(durationRaw)
                    ELSE [valid |-> TRUE, seconds |-> Max(T.seconds - startSeconds, 0)]
        notices2 == IF durationRaw.kind = "blank"
                    THEN Append(notices1, Notice(1, "Duration vacia: se usa hasta el final del video"))
                    ELSE notices1
        remaining == T.seconds - startSeconds
    IN IF ~start.valid THEN Fail("Start time invalido")
       ELSE IF startSeconds < 0 THEN Fail("Start time debe ser mayor o igual que 0")
       ELSE IF durationRaw.kind = "blank" /\ ~T.known
            THEN Fail("Duration vacia: se requiere metadata del video")
       ELSE IF ~duration.valid THEN Fail("Duration invalida")
       ELSE IF duration.seconds <= 0 THEN Fail("Duration debe ser mayor que 0")
       ELSE IF ~T.known THEN Valid(<<ClipJob(0, startSeconds, duration.seconds)>>, notices2)
       ELSE IF startSeconds >= T.seconds
            THEN Fail("Start time esta fuera de la duracion del video")
       ELSE IF remaining <= DURATION_EPSILON
            THEN Fail("No hay contenido disponible desde ese Start time")
       ELSE clampedSingleJob(startSeconds, duration.seconds, remaining, notices2)

RECURSIVE autoSplitJobsToEnd(_, _, _, _)
autoSplitJobsToEnd(cursor, index, clipLengthSeconds, total) ==
    IF cursor < total
    THEN <<ClipJob(index, cursor, Min(clipLengthSeconds, total - cursor))>>
         \o autoSplitJobsToEnd(cursor + clipLengthSeconds, index + 1, clipLengthSeconds, total)
    ELSE <<>>

\* The for loop of validateAutoSplit.
RECURSIVE autoSplitJobs(_, _, _, _)
autoSplitJobs(cursor, index, clipLengthSeconds, total) ==
    IF cursor < total - DURATION_EPSILON
    THEN <<ClipJob(index, cursor, Min(clipLengthSeconds, total - cursor))>>
         \o autoSplitJobs(cursor + clipLengthSeconds, index + 1, clipLengthSeconds, total)
    ELSE <<>>

validateAutoSplit(f) ==
    LET T == f.videoDurationSeconds
        start == IF f.autoStartInput.kind # "blank" THEN parseTimeToSeconds(f.autoStartInput)
                 ELSE [valid |-> TRUE, seconds |-> 0]
        clipLength == parseTimeToSeconds(f.clipLengthInput)
        jobs == autoSplitJobs(start.seconds, 0, clipLength.seconds, T.seconds)
    IN IF ~T.known THEN Fail("No se pudo leer la duracion del video")
       ELSE IF ~start.valid THEN Fail("Auto Start invalido")
       ELSE IF ~clipLength.valid THEN Fail("Clip length invalido")
       ELSE IF start.seconds < 0 THEN Fail("Auto Start debe ser mayor o igual que 0")
       ELSE IF clipLength.seconds <= 0 THEN Fail("Clip length debe ser mayor que 0")
       ELSE IF start.seconds >= T.seconds
            THEN Fail("Auto Start esta fuera de la duracion del video")
       ELSE IF jobs = <<>> THEN Fail("No hay clips para generar con esos parametros")
       ELSE Valid(jobs, <<>>)

isEmptyRowNever(startRaw, endRaw) == FALSE

\* A row with nothing typed in either field.
isEmptyRow(startRaw, endRaw) == startRaw.kind = "blank" /\ endRaw.kind = "blank"

rowStartZero(startRaw, previousEndSeconds) ==
    IF startRaw.kind # "blank" THEN parseTimeToSeconds(startRaw)
    ELSE [valid |-> TRUE, seconds |-> 0]

\* The start of a row: what was typed, else the end of the last cut made.
rowStart(startRaw, previousEndSeconds) ==
    IF startRaw.kind # "blank" THEN parseTimeToSeconds(startRaw)
    ELSE [valid |-> TRUE, seconds |-> previousEndSeconds]

\* A blank end taken as 0.
rowEndZero(endRaw, T) ==
    IF endRaw.kind # "blank" THEN parseTimeToSeconds(endRaw)
    ELSE [valid |-> TRUE, seconds |-> 0]

\* The end of a row: what was typed, else the total duration of the video.
rowEnd(endRaw, T) ==
    IF endRaw.kind # "blank" THEN parseTimeToSeconds(endRaw)
    ELSE [valid |-> TRUE, seconds |-> T.seconds]

\* The for loop of validateMultiCut from row index (0-based) onwards, and
\* what follows the loop.
RECURSIVE multiCutRows(_, _, _, _, _)
multiCutRows(f, index, jobs, notices, previousEndSeconds) ==
    IF index >= Len(f.multiCuts)
    THEN IF jobs = <<>> THEN Fail("No hay cortes validos para procesar")
         ELSE Valid(jobs, notices)
    ELSE
    LET T == f.videoDurationSeconds
        cut == f.multiCuts[index + 1]
        startRaw == cut.startInput
        endRaw == cut.endInput
        row == index + 1
        start == rowStart(startRaw, previousEndSeconds)
        startSeconds == start.seconds
        notices1 == IF startRaw.kind = "blank"
                    THEN Append(notices, Notice(row, "inicio vacio")) ELSE notices
        endSecondsRaw == rowEnd(endRaw, T)
        notices2 == IF endRaw.kind = "blank"
                    THEN Append(notices1, Notice(row, "fin vacio")) ELSE notices1
        clamped == T.known /\ endSecondsRaw.seconds > T.seconds + DURATION_EPSILON
        effectiveEnd == IF clamped THEN T.seconds ELSE endSecondsRaw.seconds
        notices3 == IF clamped THEN Append(notices2, Notice(row, "fin ajustado")) ELSE notices2
    IN IF isEmptyRow(startRaw, endRaw)
       THEN multiCutRows(f, index + 1, jobs,
                         Append(notices, Notice(row, "fila vacia, se omite")),
                         previousEndSeconds)
       ELSE IF ~start.valid THEN Fail("inicio invalido")
       ELSE IF endRaw.kind = "blank" /\ ~T.known THEN Fail("fin vacio y no hay metadata")
       ELSE IF ~endSecondsRaw.valid THEN Fail("fin invalido")
       ELSE IF startSeconds < 0 THEN Fail("el inicio debe ser mayor o igual que 0")
       ELSE IF T.known /\ startSeconds >= T.seconds
            THEN IF endRaw.kind = "blank" /\ startSeconds <= T.seconds + DURATION_EPSILON
                 THEN multiCutRows(f, index + 1, jobs,
                                   Append(notices2, Notice(row, "inicia en el final del video, se omite")),
                                   previousEndSeconds)
                 ELSE Fail("el inicio esta fuera de la duracion del video")
       ELSE IF effectiveEnd <= startSeconds + DURATION_EPSILON
            THEN IF endRaw.kind = "blank"
                 THEN multiCutRows(f, index + 1, jobs,
                                   Append(notices3, Notice(row, "sin duracion efectiva, se omite")),
                                   previousEndSeconds)
                 ELSE Fail("el fin debe ser mayor que el inicio")
       ELSE multiCutRows(f, index + 1,
                         Append(jobs, ClipJob(index, startSeconds, effectiveEnd - startSeconds)),
                         notices3, effectiveEnd)

validateMultiCut(f) ==
    IF Len(f.multiCuts) = 0 THEN Fail("Agrega al menos un corte")
    ELSE multiCutRows(f, 0, <<>>, <<>>, 0)

\* What can be typed into the forms.
Tokens == {Blank, Text, Minus} \cup {Time(n) : n \in 0..MaxTime}
Durations == {NoDuration} \cup {Duration(n) : n \in 0..MaxTime}
CutRows == [startInput : Tokens \ {Minus}, endInput : Tokens \ {Minus}]

SingleForms ==
    [kind : {"single"}, startInput : Tokens, durationInput : Tokens,
     videoDurationSeconds : Durations]
AutoForms ==
    [kind : {"auto"}, autoStartInput : Tokens, clipLengthInput : Tokens,
     videoDurationSeconds : Durations]
MultiForms ==
    [kind : {"multi"}, multiCuts : UNION {[1..n -> CutRows] : n \in 1..MaxRows},
     videoDurationSeconds : Durations]

\* The simple tab as first rendered: start 00:00:00, duration 00:00:34.
DefaultForm ==
    [kind |-> "single", startInput |-> Time(0), durationInput |-> Time(Seconds(34)),
     videoDurationSeconds |-> NoDuration]

(***************************************************************************)
(* Text helpers: times as text, output names                               *)
(***************************************************************************)
\* A string is the sequence of its characters.  A number of seconds is held
\* as its whole part and its first four decimals (ten-thousandths), which is
\* exact for every time written with up to four decimals.
Real(whole, decimals) == [whole |-> whole, decimals |-> decimals]

NoCall == [fn |-> "none"]
NotReturned == [done |-> FALSE]
Returned(value) == [done |-> TRUE, value |-> value]

Digits == <<"0", "1", "2", "3", "4", "5", "6", "7", "8", "9">>

IsDigit(c) == \E d \in 1..10 : Digits[d] = c

\* Number() of a single digit.
DigitValue(c) == (CHOOSE d \in 1..10 : Digits[d] = c) - 1

\* String(n) of a whole number n >= 0.
RECURSIVE String_(_)
String_(n) == IF n < 10 THEN <<Digits[n + 1]>> ELSE String_(n \div 10) \o <<Digits[(n % 10) + 1]>>

\* String.prototype.padStart with a one-character filler.
RECURSIVE padStart(_, _, _)
padStart(s, targetLength, fill) ==
    IF Len(s) >= targetLength THEN s ELSE padStart(<<fill>> \o s, targetLength, fill)

\* Math.round(secondsValue * 1000) of a value >= 0: halves round up.
RoundToMilliseconds(secondsValue) ==
    secondsValue.whole * 1000 + (secondsValue.decimals + 5) \div 10

\* hh:mm:ss of a whole number of milliseconds.
ClockText(millisecondsTotal) ==
    LET hours == millisecondsTotal \div 3600000
        minutes == (millisecondsTotal % 3600000) \div 60000
        seconds == (millisecondsTotal % 60000) \div 1000
    IN padStart(String_(hours), 2, "0") \o <<":">> \o padStart(String_(minutes), 2, "0")
       \o <<":">> \o padStart(String_(seconds), 2, "0")

\* The millisecond field without its leading zeros.
MillisTextUnpadded(millisecondsTotal) == <<".">> \o String_(millisecondsTotal % 1000)

MillisText(millisecondsTotal) == <<".">> \o padStart(String_(millisecondsTotal % 1000), 3, "0")

formatSecondsToTime(secondsValue, includeMilliseconds) ==
    LET millisecondsTotal == RoundToMilliseconds(secondsValue)
    IN IF secondsValue.whole < 0 THEN <<"0", "0", ":", "0", "0", ":", "0", "0">>
       ELSE IF ~includeMilliseconds \/ millisecondsTotal % 1000 = 0
            THEN ClockText(millisecondsTotal)
       ELSE ClockText(millisecondsTotal) \o MillisText(millisecondsTotal)

formatSecondsForFfmpeg(secondsValue) ==
    IF secondsValue.whole < 0 THEN <<"0", "0", ":", "0", "0", ":", "0", "0", ".", "0", "0", "0">>
    ELSE ClockText(RoundToMilliseconds(secondsValue))
         \o MillisText(RoundToMilliseconds(secondsValue))

\* String.prototype.trim: blanks at both ends are dropped.
RECURSIVE trim(_)
trim(s) ==
    IF s = <<>> THEN s
    ELSE IF Head(s) = " " THEN trim(Tail(s))
    ELSE IF s[Len(s)] = " " THEN trim(SubSeq(s, 1, Len(s) - 1))
    ELSE s

\* \d+
AllDigits(s) == s # <<>> /\ \A k \in 1..Len(s) : IsDigit(s[k])

\* Number() of a string of digits.
RECURSIVE DigitsValue(_)
DigitsValue(s) ==
    IF s = <<>> THEN 0 ELSE DigitsValue(SubSeq(s, 1, Len(s) - 1)) * 10 + DigitValue(s[Len(s)])

\* The decimals of a number, in ten-thousandths: digits after the fourth are
\* below the resolution held.
RECURSIVE DecimalsValue(_, _)
DecimalsValue(s, weight) ==
    IF s = <<>> \/ weight = 0 THEN 0
    ELSE DigitValue(Head(s)) * weight + DecimalsValue(Tail(s), weight \div 10)

\* Where the decimal separator of s is: its first "." or ",", else 0.
SeparatorAt(s) ==
    IF \E k \in 1..Len(s) : s[k] \in {".", ","}
    THEN CHOOSE k \in 1..Len(s) : s[k] \in {".", ","} /\ \A j \in 1..(k - 1) : s[j] \notin {".", ","}
    ELSE 0

WholePart(s) == IF SeparatorAt(s) = 0 THEN s ELSE SubSeq(s, 1, SeparatorAt(s) - 1)
DecimalPart(s) ==
    IF SeparatorAt(s) = 0 THEN <<>> ELSE SubSeq(s, SeparatorAt(s) + 1, Len(s))

\* Number(normalizeDecimalSeparator(s)) of a string matching \d+(?:[.,]\d+)?
Number(s) == Real(DigitsValue(WholePart(s)), DecimalsValue(DecimalPart(s), 1000))

\* [0-5]?\d accepting any one or two digits.
TwoDigits(s) == Len(s) \in {1, 2} /\ AllDigits(s)

\* [0-5]?\d
Sexagesimal(s) ==
    \/ Len(s) = 1 /\ IsDigit(s[1])
    \/ Len(s) = 2 /\ s[1] \in {"0", "1", "2", "3", "4", "5"} /\ IsDigit(s[2])

\* whole(?:[.,]\d+)? where whole is tested by the operator Whole.
WithDecimals(s, Whole(_)) ==
    IF SeparatorAt(s) = 0 THEN Whole(s)
    ELSE Whole(WholePart(s)) /\ AllDigits(DecimalPart(s))

\* SECONDS_REGEX = /^\d+(?:[.,]\d+)?$/
SECONDS_REGEX(s) == WithDecimals(s, AllDigits)

\* The parts of s between its colons.
RECURSIVE Fields(_)
Fields(s) ==
    IF \E k \in 1..Len(s) : s[k] = ":"
    THEN LET k == CHOOSE i \in 1..Len(s) : s[i] = ":" /\ \A j \in 1..(i - 1) : s[j] # ":"
         IN <<SubSeq(s, 1, k - 1)>> \o Fields(SubSeq(s, k + 1, Len(s)))
    ELSE <<s>>

\* HH_MM_SS_REGEX = /^(\d+):([0-5]?\d):([0-5]?\d(?:[.,]\d+)?)$/
HH_MM_SS_REGEX(s) ==
    /\ Len(Fields(s)) = 3
    /\ AllDigits(Fields(s)[1])
    /\ Sexagesimal(Fields(s)[2])
    /\ WithDecimals(Fields(s)[3], Sexagesimal)

\* MM_SS_REGEX = /^(\d+):([0-5]?\d(?:[.,]\d+)?)$/
MM_SS_REGEX(s) ==
    /\ Len(Fields(s)) = 2
    /\ AllDigits(Fields(s)[1])
    /\ WithDecimals(Fields(s)[2], Sexagesimal)

null == [valid |-> FALSE, seconds |-> Real(0, 0)]
Parsed(seconds) == [valid |-> TRUE, seconds |-> seconds]

\* parseTimeToSeconds on the characters of its input.
parseTimeText(input) ==
    LET value == trim(input)
        f == Fields(value)
    IN IF value = <<>> THEN null
       ELSE IF SECONDS_REGEX(value) THEN Parsed(Number(value))
       ELSE IF HH_MM_SS_REGEX(value)
            THEN Parsed(Real(DigitsValue(f[1]) * 3600 + DigitsValue(f[2]) * 60
                             + Number(f[3]).whole,
                             Number(f[3]).decimals))
       ELSE IF ~MM_SS_REGEX(value) THEN null
       ELSE Parsed(Real(DigitsValue(f[1]) * 60 + Number(f[2]).whole, Number(f[2]).decimals))

\* String.prototype.replace(/[set]/g, by) for a set of characters.
ReplaceChars(s, set, by) == [k \in 1..Len(s) |-> IF s[k] \in set THEN by ELSE s[k]]

formatSecondsForName(seconds) ==
    ReplaceChars(formatSecondsToTime(IF seconds.whole < 0 THEN Real(0, 0) ELSE seconds, TRUE),
                 {".", ":"}, "-")

\* The argument list with the times written as the display formatter writes
\* them.
transcodeClipArgsDisplayTime(job) ==
    <<"-ss", formatSecondsToTime(job.startSeconds, TRUE),
      "-i", job.inputPath,
      "-t", formatSecondsToTime(job.durationSeconds, TRUE),
      "-c:v", "libx264",
      "-preset", "veryfast",
      "-crf", "23",
      "-c:a", "aac",
      "-b:a", "128k",
      "-movflags", "+faststart",
      job.outputPath>>

\* The argument list BrowserFFmpeg.transcodeClip hands to FFmpeg.exec; the
\* fixed words of the list are whole strings, the two times character lists.
transcodeClipArgs(job) ==
    <<"-ss", formatSecondsForFfmpeg(job.startSeconds),
      "-i", job.inputPath,
      "-t", formatSecondsForFfmpeg(job.durationSeconds),
      "-c:v", "libx264",
      "-preset", "veryfast",
      "-crf", "23",
      "-c:a", "aac",
      "-b:a", "128k",
      "-movflags", "+faststart",
      job.outputPath>>

\* Strings of at most n characters of the set chars.
TextsUpTo(chars, n) == UNION {[1..k -> chars] : k \in 0..n}

\* The characters sanitizeFileName replaces one by one: < > : " / \ | ? *
\* (and the control characters, which are not drawn here).
ReservedChars == {"<", ">", ":", "\"", "/", "\\", "|", "?", "*"}

\* replace(/_+/g, '_')
RECURSIVE SqueezeUnderscores(_)
SqueezeUnderscores(s) ==
    IF Len(s) < 2 THEN s
    ELSE IF s[1] = "_" /\ s[2] = "_" THEN SqueezeUnderscores(Tail(s))
    ELSE <<s[1]>> \o SqueezeUnderscores(Tail(s))

\* replace(/^\.+|\.+$/g, '')
RECURSIVE StripDots(_)
StripDots(s) ==
    IF s = <<>> THEN s
    ELSE IF Head(s) = "." THEN StripDots(Tail(s))
    ELSE IF s[Len(s)] = "." THEN StripDots(SubSeq(s, 1, Len(s) - 1))
    ELSE s

sanitizeFileName(value) ==
    LET cleaned == StripDots(SqueezeUnderscores(
                       ReplaceChars(ReplaceChars(trim(value), ReservedChars, "_"), {" "}, "_")))
    IN IF cleaned = <<>> THEN <<"c", "l", "i", "p">> ELSE cleaned

\* Where the extension of a file name starts: its last "." when followed by
\* at least one character, else 0.
ExtensionAt(s) ==
    IF \E k \in 1..(Len(s) - 1) : s[k] = "." /\ \A j \in (k + 1)..Len(s) : s[j] # "."
    THEN CHOOSE k \in 1..(Len(s) - 1) : s[k] = "." /\ \A j \in (k + 1)..Len(s) : s[j] # "."
    ELSE 0

baseNameFromFile(fileName) ==
    LET trimmed == trim(fileName)
        base == IF ExtensionAt(trimmed) = 0 THEN trimmed
                ELSE SubSeq(trimmed, 1, ExtensionAt(trimmed) - 1)
    IN IF base = <<>> THEN <<"v", "i", "d", "e", "o">> ELSE base

\* replace(/\{token\}/g, by): a token of the pattern is one element of it.
RECURSIVE ReplaceToken(_, _, _)
ReplaceToken(s, token, by) ==
    IF s = <<>> THEN s
    ELSE (IF Head(s) = token THEN by ELSE <<Head(s)>>) \o ReplaceToken(Tail(s), token, by)

\* toLowerCase on the letters drawn.
toLowerCase(s) ==
    [k \in 1..Len(s) |-> IF s[k] = "M" THEN "m" ELSE IF s[k] = "P" THEN "p" ELSE s[k]]

endsWith(s, suffix) ==
    Len(s) >= Len(suffix) /\ SubSeq(s, Len(s) - Len(suffix) + 1, Len(s)) = suffix

Mp4Suffix == <<".", "m", "p", "4">>

DEFAULT_NAME_PATTERN ==
    <<"{video}", "_", "{idx}", "_", "{start}", "_", "{end}">> \o Mp4Suffix

buildOutputName(pattern, sourceName, index, startSeconds, durationSeconds) ==
    LET safePattern == IF trim(pattern) = <<>> THEN DEFAULT_NAME_PATTERN ELSE trim(pattern)
        endSeconds == Real(startSeconds.whole + durationSeconds.whole
                             + (startSeconds.decimals + durationSeconds.decimals) \div 10000,
                           (startSeconds.decimals + durationSeconds.decimals) % 10000)
        idx == padStart(String_(index), 3, "0")
        a == ReplaceToken(safePattern, "{video}", sanitizeFileName(baseNameFromFile(sourceName)))
        b == ReplaceToken(a, "{idx}", idx)
        c == ReplaceToken(b, "{start}", formatSecondsForName(startSeconds))
        d == ReplaceToken(c, "{end}", formatSecondsForName(endSeconds))
        rawName == ReplaceToken(d, "{duration}", formatSecondsForName(durationSeconds))
        normalized == sanitizeFileName(rawName)
    IN IF endsWith(toLowerCase(normalized), Mp4Suffix) THEN normalized
       ELSE normalized \o Mp4Suffix

\* Source file names: a stem, with or without the extension .mov.
NameChars == {"a", "M", " ", ".", "(", ":"}
SourceNames ==
    {stem \o ext : stem \in TextsUpTo(NameChars, MaxName),
                   ext \in {<<>>, <<".", "m", "o", "v">>}}

\* Naming patterns: characters and tokens, then no suffix, .mp4 or .MP4.
PatternPieces == {"a", " ", "(", "{video}", "{idx}", "{start}", "{end}", "{duration}"}
Patterns ==
    {body \o suffix : body \in TextsUpTo(PatternPieces, MaxPattern),
                      suffix \in {<<>>, Mp4Suffix, <<".", "M", "P", "4">>}}

NameCalls ==
    [fn : {"buildOutputName"}, pattern : Patterns, sourceName : SourceNames,
     index : {0, 12},
     startSeconds : {Real(0, 0), Real(1, 5000)},
     durationSeconds : {Real(5, 0)}]

\* What can be typed as a time: digits, the separators, a blank, a minus sign.
TimeChars == {"0", "1", "6", ":", ".", ",", " ", "-"}

\* Times: every combination of the hour, minute, second and millisecond
\* fields below, some with a fraction of a millisecond, and a negative value.
TimeValues ==
    {Real(h * 3600 + m * 60 + sec, ms * 10 + tenth) :
        h \in {0, 1, 100}, m \in {0, 59}, sec \in {0, 59}, ms \in {0, 5, 999},
        tenth \in {0, 4, 5}} \cup {Real(0 - 1, 0)}

ParseCalls == [fn : {"parseTimeToSeconds"}, input : TextsUpTo(TimeChars, MaxText)]
FormatCalls ==
    [fn : {"formatSecondsToTime"}, secondsValue : TimeValues, includeMilliseconds : BOOLEAN]
NameTimeCalls == [fn : {"formatSecondsForName"}, seconds : TimeValues]
TranscodeCalls ==
    [fn : {"transcodeClip"},
     job : [startSeconds : TimeValues, durationSeconds : TimeValues,
            inputPath : {"input_1.mp4"}, outputPath : {"output_1.mp4"}]]

InitComponent ==
    /\ ui = [selectedFile |-> 0,
             isProcessing |-> FALSE, isCoreLoading |-> FALSE, isCoreLoaded |-> FALSE,
             queuePaused |-> FALSE, queueCancelRequested |-> FALSE,
             currentMode |-> "idle", error |-> NoError,
             outputs |-> <<>>, history |-> <<>>, recorded |-> 0,
             zip |-> <<>>, zipping |-> FALSE]
    /\ refs = [ffmpegRef |-> 1, coreLoadPromiseRef |-> 0,
               queueControl |-> queueControlInit,
               progressContext |-> progressContextInit]
    /\ engines = [i \in InstIds |-> FreshEngine]
    /\ loads = [l \in LoadIds |-> NoLoad]
    /\ runs = [r \in RunIds |-> IdleRun]

\* The job queue is studied with the form left at its defaults.
Init ==
    /\ InitComponent
    /\ form = DefaultForm
    /\ validation = NoValidation
    /\ call = NoCall
    /\ returned = NotReturned

(***************************************************************************)
(* Event loop: promise continuations run before the next macrotask.        *)
(***************************************************************************)
MicrotaskPending(t) ==
    \/ \E r \in RunIds : t.runs[r].pc = "afterLoad"
    \/ \E r \in RunIds : t.runs[r].pc \in EnginePcs /\ t.runs[r].fault # "none"
    \/ \E l \in LoadIds : t.loads[l].stage = "rejected"

(***************************************************************************)
(* Output list                                                             *)
(***************************************************************************)
replaceOutputs(t, nextOutputs) == [t EXCEPT !.ui.outputs = nextOutputs]

\* appendOutput putting the new clip first.
appendOutputFirst(t, clip) == [t EXCEPT !.ui.outputs = <<clip>> \o t.ui.outputs]

appendOutput(t, clip) == [t EXCEPT !.ui.outputs = Append(t.ui.outputs, clip)]

\* downloadableOutputs without the verifiedPlayable filter.
downloadableOutputsUnfiltered(t) == t.ui.outputs

downloadableOutputs(t) == SelectClips(t.ui.outputs, TRUE)

\* The download link of a clip is rendered only for a verified clip.
downloadLinkShown(clip) == clip.verifiedPlayable

clearRunState(t) == [t EXCEPT !.ui.error = NoError]

(***************************************************************************)
(* Engine adapter (BrowserFFmpeg over one FFmpeg worker)                   *)
(***************************************************************************)
\* FFmpeg rejects a call at once when it has no worker, else the call pends.
EngineCall(t, r, nextPc) ==
    [t EXCEPT !.runs[r].pc = nextPc,
              !.runs[r].fault =
                  IF t.engines[t.runs[r].processor].worker THEN "none" ELSE "notLoaded"]

\* terminate(): every pending call of the instance is rejected, its worker
\* and working storage are gone, the wrapper's loaded flag is cleared.
terminate(t, i) ==
    [t EXCEPT
        !.engines[i] = FreshEngine,
        !.runs = [r \in RunIds |->
                    IF /\ t.runs[r].processor = i
                       /\ t.runs[r].pc \in EnginePcs
                       /\ t.runs[r].fault = "none"
                    THEN [t.runs[r] EXCEPT !.fault = "terminated"]
                    ELSE t.runs[r]],
        !.loads = [l \in LoadIds |->
                    IF t.loads[l].inst = i /\ t.loads[l].stage = "init"
                    THEN [t.loads[l] EXCEPT !.stage = "rejected"]
                    ELSE t.loads[l]]]

createProcessor(t) == [t EXCEPT !.refs.ffmpegRef = t.refs.ffmpegRef + 1]

resetProcessor(t) ==
    LET a == terminate(t, t.refs.ffmpegRef)
        b == createProcessor(a)
    IN [b EXCEPT !.ui.isCoreLoaded = FALSE,
                 !.ui.isCoreLoading = FALSE,
                 !.refs.coreLoadPromiseRef = 0]

\* toErrorMessage passing the library's termination error through.
toErrorMessageRaw(fault) == fault

toErrorMessage(fault) ==
    IF fault = "terminated" THEN "El motor ffmpeg se reinicio" ELSE fault

(***************************************************************************)
(* Engine loader                                                           *)
(***************************************************************************)
FreeLoads(t) == {l \in LoadIds : t.loads[l].stage = "none"}
FreeLoad(t) == CHOOSE l \in FreeLoads(t) : \A m \in FreeLoads(t) : l <= m

\* ensureCoreReady can be called: it returns at once, joins the promise in
\* flight, or the model still has a load to start.
CanEnsure(t) ==
    \/ t.ui.isCoreLoaded
    \/ t.refs.coreLoadPromiseRef # 0
    \/ FreeLoads(t) # {}

\* The part of ensureCoreReady's load promise after processor.load() resolved.
loadResolved(t) ==
    [t EXCEPT !.ui.isCoreLoaded = TRUE,
              !.ui.isCoreLoading = FALSE, !.refs.coreLoadPromiseRef = 0]

\* The part of ensureCoreReady's load promise after processor.load() threw.
loadFailed(t, message) ==
    [t EXCEPT !.ui.error = [message |-> message, partial |-> 0],
              !.ui.isCoreLoading = FALSE, !.refs.coreLoadPromiseRef = 0]

\* ensureCoreReady: .t is the state after the call, .await the load promise
\* the caller waits for (0: it returned true at once).
ensureCoreReady(t) ==
    IF t.ui.isCoreLoaded THEN [t |-> t, await |-> 0]
    ELSE IF t.refs.coreLoadPromiseRef # 0
    THEN [t |-> t, await |-> t.refs.coreLoadPromiseRef]
    ELSE LET a == [t EXCEPT !.ui.isCoreLoading = TRUE, !.ui.error = NoError]
         IN IF a.engines[a.refs.ffmpegRef].loaded
            THEN [t |-> loadResolved(a), await |-> 0]
            ELSE LET l == FreeLoad(t)
                 IN [t |-> [a EXCEPT !.loads[l] = [inst |-> a.refs.ffmpegRef,
                                                    stage |-> "fetch"],
                                     !.refs.coreLoadPromiseRef = l],
                     await |-> l]

\* The load promise l settled: every run awaiting it resumes with its value.
\* The promises still in flight keep their order and are renumbered from 1.
settleLoad(t, l, value) ==
    [t EXCEPT
        !.loads = [k \in LoadIds |->
                     IF k < l THEN t.loads[k]
                     ELSE IF k + 1 \in LoadIds THEN t.loads[k + 1] ELSE NoLoad],
        !.refs.coreLoadPromiseRef =
            IF @ > l THEN @ - 1 ELSE IF @ = l THEN 0 ELSE @,
        !.runs = [r \in RunIds |->
                    IF t.runs[r].pc = "loading" /\ t.runs[r].awaits = l
                    THEN [t.runs[r] EXCEPT !.pc = "afterLoad", !.loaded = value,
                                           !.awaits = 0]
                    ELSE IF t.runs[r].awaits > l
                    THEN [t.runs[r] EXCEPT !.awaits = @ - 1]
                    ELSE t.runs[r]]]

(***************************************************************************)
(* Job queue runner: processJobs                                           *)
(***************************************************************************)
\* An addHistoryEntry that puts the entry after the ones already held.
addHistoryEntryLast(t, r) ==
    LET run == t.runs[r]
    IN IF run.file = 0 \/ run.generated = <<>> THEN t
       ELSE [t EXCEPT !.ui.recorded = @ + 1,
                      !.ui.history =
                SubSeq(t.ui.history, 1,
                       IF Len(t.ui.history) < HISTORY_LIMIT THEN Len(t.ui.history)
                       ELSE HISTORY_LIMIT - 1)
                \o <<[id |-> t.ui.recorded + 1,
                      outputCount |-> Len(run.generated),
                      clips |-> [k \in 1..Len(run.generated) |-> run.generated[k].job]]>>]

\* An addHistoryEntry that keeps every entry already held.
addHistoryEntryUnbounded(t, r) ==
    LET run == t.runs[r]
    IN IF run.file = 0 \/ run.generated = <<>> THEN t
       ELSE [t EXCEPT !.ui.recorded = @ + 1,
                      !.ui.history =
                <<[id |-> t.ui.recorded + 1,
                   outputCount |-> Len(run.generated),
                   clips |-> [k \in 1..Len(run.generated) |-> run.generated[k].job]]>>
                \o t.ui.history]

\* createId() gives every entry an id of its own: here the ordinal of the
\* entry among those recorded since the component was mounted, counted in
\* ui.recorded (which the code does not hold).
addHistoryEntry(t, r) ==
    LET run == t.runs[r]
    IN IF run.file = 0 \/ run.generated = <<>> THEN t
       ELSE [t EXCEPT !.ui.recorded = @ + 1,
                      !.ui.history =
                <<[id |-> t.ui.recorded + 1,
                   outputCount |-> Len(run.generated),
                   clips |-> [k \in 1..Len(run.generated) |-> run.generated[k].job]]>>
                \o SubSeq(t.ui.history, 1,
                          IF Len(t.ui.history) < HISTORY_LIMIT THEN Len(t.ui.history)
                          ELSE HISTORY_LIMIT - 1)]

\* Lines 1656-1663: the end of the finally block.
finishRun(t, r) ==
    [t EXCEPT !.refs.progressContext.mode = "idle",
              !.ui.currentMode = "idle",
              !.ui.isProcessing = FALSE,
              !.refs.queueControl = queueControlInit,
              !.ui.queuePaused = FALSE,
              !.ui.queueCancelRequested = FALSE,
              !.runs[r].pc = "done",
              !.runs[r].fault = "none"]

\* A finally block that does not delete the staged input file.
runFinallyKeepInput(t, r) == finishRun(t, r)

\* The finally block: delete the staged input file, then reset the run state.
runFinally(t, r) ==
    IF t.runs[r].inputPath THEN EngineCall(t, r, "cleanup") ELSE finishRun(t, r)

\* The catch block, then the finally block.
runCatch(t, r, message) ==
    runFinally([t EXCEPT !.ui.error = [message |-> message,
                                       partial |-> Len(t.ui.outputs)],
                         !.runs[r].result = "Proceso interrumpido"], r)

\* Lines 1637-1643: every job was processed.
runComplete(t, r) ==
    runFinally(addHistoryEntry([t EXCEPT !.runs[r].result = "Proceso completado"], r), r)

\* Lines 1586-1607: the job at run.index starts, transcodeClip calls exec.
startJob(t, r) ==
    LET run == t.runs[r]
        a == [t EXCEPT !.refs.progressContext.clipIndex = run.index,
                       !.runs[r].transcoded = Append(run.transcoded, run.index + 1),
                       !.runs[r].unloadedCall =
                           run.unloadedCall \/ ~t.engines[run.processor].loaded]
    IN EngineCall(a, r, "exec")

\* waitForQueueGate once its loop condition is false.
passQueueGate(t, r) ==
    IF t.refs.queueControl.cancelled
    THEN runCatch(t, r, "Procesamiento cancelado por el usuario")
    ELSE startJob(t, r)

\* A gate that reads the cancel flag only and never waits.
waitForQueueGateOnce(t, r) == passQueueGate(t, r)

\* waitForQueueGate as called from the loop: it polls while paused.
waitForQueueGate(t, r) ==
    IF t.refs.queueControl.paused /\ ~t.refs.queueControl.cancelled
    THEN [t EXCEPT !.runs[r].pc = "gate", !.runs[r].waited = TRUE]
    ELSE passQueueGate(t, r)

\* The head of the for loop.
loopIteration(t, r) ==
    IF t.runs[r].index < t.runs[r].jobs THEN waitForQueueGate(t, r) ELSE runComplete(t, r)

\* processor.writeInputFile(selectedFile) is called: it first reads the file.
callWriteInputFile(t, r) ==
    [t EXCEPT !.runs[r].pc = "fetchFile",
              !.runs[r].unloadedCall =
                  t.runs[r].unloadedCall \/ ~t.engines[t.runs[r].processor].loaded]

\* Line 1575 onwards, once ensureCoreReady's value is known.
afterEnsure(t, r, loaded) ==
    IF loaded THEN callWriteInputFile(t, r)
    ELSE runFinally([t EXCEPT !.runs[r].result = "Error al cargar ffmpeg.wasm"], r)

\* Finished activations keep only their position.
DoneRun == [IdleRun EXCEPT !.pc = "done"]
FreeRuns(t) == {r \in RunIds : t.runs[r].pc = "idle"}
NextRun(t) == CHOOSE r \in FreeRuns(t) : \A q \in FreeRuns(t) : r <= q

\* processJobs(mode, validation) up to its first pending await.
processJobs(t, mode, n) ==
    LET r == NextRun(t)
        a == replaceOutputs(clearRunState(t), <<>>)
        b == [a EXCEPT
                !.ui.isProcessing = TRUE,
                !.ui.currentMode = mode,
                !.refs.queueControl = queueControlInit,
                !.ui.queuePaused = FALSE,
                !.ui.queueCancelRequested = FALSE,
                !.refs.progressContext = [mode |-> mode, clipIndex |-> 0, totalClips |-> n],
                !.runs = [q \in RunIds |->
                            IF q = r
                            THEN [IdleRun EXCEPT !.pc = "loading", !.mode = mode,
                                                 !.jobs = n,
                                                 !.processor = t.refs.ffmpegRef,
                                                 !.file = t.ui.selectedFile]
                            ELSE IF t.runs[q].pc = "done" THEN DoneRun
                            ELSE t.runs[q]]]
        e == ensureCoreReady(b)
    IN IF e.await = 0 THEN afterEnsure(e.t, r, TRUE)
       ELSE [e.t EXCEPT !.runs[r].awaits = e.await]

(***************************************************************************)
(* User interface: what each control allows                                *)
(***************************************************************************)
\* Run buttons that are not disabled while a run is processing.
runButtonAlwaysEnabled(t) == t.ui.selectedFile # 0

runButtonEnabled(t) == t.ui.selectedFile # 0 /\ ~t.ui.isProcessing

queueButtonsShown(t) == t.ui.currentMode = "queue" /\ t.ui.isProcessing

handlePauseQueue(t) ==
    [t EXCEPT !.refs.queueControl.paused = TRUE, !.ui.queuePaused = TRUE]

handleResumeQueue(t) ==
    [t EXCEPT !.refs.queueControl.paused = FALSE, !.ui.queuePaused = FALSE]

\* A cancel that leaves the paused flag as it is.
handleCancelQueueKeepsPause(t) ==
    LET a == [t EXCEPT
                !.refs.queueControl.cancelled = TRUE,
                !.ui.queueCancelRequested = TRUE,
                !.runs = [r \in RunIds |->
                            IF t.runs[r].pc \in ActivePcs /\ t.runs[r].cancelAt = "none"
                            THEN [t.runs[r] EXCEPT !.cancelAt = t.runs[r].pc]
                            ELSE t.runs[r]]]
    IN resetProcessor(a)

handleCancelQueue(t) ==
    LET a == [t EXCEPT
                !.refs.queueControl = [paused |-> FALSE, cancelled |-> TRUE],
                !.ui.queuePaused = FALSE,
                !.ui.queueCancelRequested = TRUE,
                !.runs = [r \in RunIds |->
                            IF t.runs[r].pc \in ActivePcs /\ t.runs[r].cancelAt = "none"
                            THEN [t.runs[r] EXCEPT !.cancelAt = t.runs[r].pc]
                            ELSE t.runs[r]]]
    IN resetProcessor(a)

handleIncomingFile(t) ==
    LET a == replaceOutputs(clearRunState(t), <<>>)
        b == [a EXCEPT !.ui.selectedFile = 1]
    IN ensureCoreReady(b).t

(***************************************************************************)
(* Actions: user events                                                    *)
(***************************************************************************)
\* A video file is picked or dropped (the file input is never disabled).
HandleIncomingFile ==
    /\ ~MicrotaskPending(St)
    /\ CanEnsure(St)
    /\ Becomes(handleIncomingFile(St))

StartRun(mode, n) ==
    /\ ~MicrotaskPending(St)
    /\ runButtonEnabled(St)
    /\ FreeRuns(St) # {}
    /\ CanEnsure([St EXCEPT !.ui.error = NoError])
    /\ Becomes(processJobs(St, mode, n))

\* The validation of each mode succeeded with n jobs.
HandleTrim == StartRun("single", 1)

HandleAutoSplit == \E n \in 1..MaxJobs : StartRun("queue", n)

HandleMultiCut == \E n \in 1..MaxJobs : StartRun("queue", n)

HandlePauseQueue ==
    /\ ~MicrotaskPending(St)
    /\ queueButtonsShown(St)
    /\ ~ui.queuePaused /\ ~ui.queueCancelRequested
    /\ Becomes(handlePauseQueue(St))

HandleResumeQueue ==
    /\ ~MicrotaskPending(St)
    /\ queueButtonsShown(St)
    /\ ui.queuePaused /\ ~ui.queueCancelRequested
    /\ Becomes(handleResumeQueue(St))

HandleCancelQueue ==
    /\ ~MicrotaskPending(St)
    /\ queueButtonsShown(St)
    /\ ~ui.queueCancelRequested
    /\ refs.ffmpegRef < MaxInst
    /\ Becomes(handleCancelQueue(St))

HandleDownloadAll ==
    /\ ~MicrotaskPending(St)
    /\ ~ui.isProcessing
    /\ Len(downloadableOutputs(St)) >= 2
    /\ ~ui.zipping
    /\ Becomes([St EXCEPT !.ui.error = NoError, !.ui.isProcessing = TRUE,
                          !.ui.zip = downloadableOutputs(St),
                          !.ui.zipping = TRUE])

\* zip.generateAsync settles.
ZipDone(ok) ==
    /\ ~MicrotaskPending(St)
    /\ ui.zipping
    /\ Becomes([St EXCEPT
                  !.ui.error = IF ok THEN ui.error
                               ELSE [message |-> "No se pudo empaquetar", partial |-> 0],
                  !.ui.zip = <<>>,
                  !.ui.isProcessing = FALSE,
                  !.ui.zipping = FALSE])

(***************************************************************************)
(* Actions: engine loading (BrowserFFmpeg.load inside ensureCoreReady)     *)
(***************************************************************************)
\* Both toBlobURL fetches resolved: FFmpeg.load() starts the worker of the
\* instance the load was started on.
LoadFetched(l) ==
    /\ ~MicrotaskPending(St)
    /\ loads[l].stage = "fetch"
    /\ Becomes([St EXCEPT !.loads[l].stage = "init",
                          !.engines[loads[l].inst].worker = TRUE])

\* processor.load() threw: a toBlobURL fetch failed.
LoadFetchFailed(l) ==
    /\ ~MicrotaskPending(St)
    /\ loads[l].stage = "fetch"
    /\ Becomes(settleLoad(loadFailed(St, "fetch"), l, FALSE))

\* FFmpeg.load() resolved: the wrapper is loaded, ensureCoreReady returns true.
LoadInitDone(l) ==
    /\ ~MicrotaskPending(St)
    /\ loads[l].stage = "init"
    /\ Becomes(settleLoad(loadResolved([St EXCEPT !.engines[loads[l].inst].loaded = TRUE]),
                          l, TRUE))

\* FFmpeg.load() was rejected by terminate().
LoadRejected(l) ==
    /\ loads[l].stage = "rejected"
    /\ Becomes(settleLoad(loadFailed(St, toErrorMessage("terminated")), l, FALSE))

(***************************************************************************)
(* Actions: continuations of processJobs                                   *)
(***************************************************************************)
RunAfterLoad(r) ==
    /\ runs[r].pc = "afterLoad"
    /\ \A l \in LoadIds : loads[l].stage # "rejected"
    /\ Becomes(afterEnsure(St, r, runs[r].loaded))

\* fetchFile(file) resolved: writeInputFile calls FFmpeg.writeFile.
FetchFileDone(r) ==
    /\ ~MicrotaskPending(St)
    /\ runs[r].pc = "fetchFile"
    /\ Becomes(EngineCall(St, r, "writeFile"))

\* FFmpeg.writeFile resolved: the input is staged and the loop starts.
WriteDone(r) ==
    /\ ~MicrotaskPending(St)
    /\ runs[r].pc = "writeFile"
    /\ Becomes(loopIteration(
         [St EXCEPT !.engines[runs[r].processor].files = @ \cup {InputPath(r)},
                    !.runs[r].inputPath = TRUE], r))

\* delay(120) elapsed inside waitForQueueGate.
GateTick(r) ==
    /\ ~MicrotaskPending(St)
    /\ runs[r].pc = "gate"
    /\ ~(refs.queueControl.paused /\ ~refs.queueControl.cancelled)
    /\ Becomes(passQueueGate(St, r))

\* FFmpeg.exec resolved with exit code 0 and FFmpeg.readFile returned the
\* output: transcodeClip deletes the temporary output.
ExecDone(r) ==
    /\ ~MicrotaskPending(St)
    /\ runs[r].pc = "exec"
    /\ Becomes(EngineCall(
         [St EXCEPT !.engines[runs[r].processor].files = @ \cup {OutputPath(runs[r].index + 1)}],
         r, "del"))

\* FFmpeg.exec resolved with a non-zero exit code; a partial output file may
\* be left in the working storage.
ExecFailed(r, partialOutput) ==
    /\ ~MicrotaskPending(St)
    /\ runs[r].pc = "exec"
    /\ Becomes(runCatch(
         [St EXCEPT !.engines[runs[r].processor].files =
                        IF partialOutput THEN @ \cup {OutputPath(runs[r].index + 1)} ELSE @],
         r, "ffmpeg finalizo con codigo"))

\* FFmpeg.exec resolved with exit code 0 but FFmpeg.readFile failed.
ReadFailed(r) ==
    /\ ~MicrotaskPending(St)
    /\ runs[r].pc = "exec"
    /\ Becomes(runCatch(
         [St EXCEPT !.engines[runs[r].processor].files = @ \cup {OutputPath(runs[r].index + 1)}],
         r, "readFile"))

\* transcodeClip returning the bytes without deleting the temporary output.
DeleteOutputDoneKeepsFile(r) ==
    /\ ~MicrotaskPending(St)
    /\ runs[r].pc = "del"
    /\ Becomes([St EXCEPT !.runs[r].pc = "verify"])

\* The clip listed as soon as transcodeClip returns, taken as playable
\* without a verification.
DeleteOutputDoneUnverified(r) ==
    /\ ~MicrotaskPending(St)
    /\ runs[r].pc = "del"
    /\ LET clip == [job |-> runs[r].index + 1, verifiedPlayable |-> TRUE,
                    verificationError |-> "none"]
           a == appendOutput(
                  [St EXCEPT
                     !.engines[runs[r].processor].files = @ \ {OutputPath(runs[r].index + 1)},
                     !.runs[r].generated = Append(@, clip)], clip)
       IN Becomes(loopIteration([a EXCEPT !.runs[r].index = @ + 1], r))

\* FFmpeg.deleteFile of the temporary output resolved: transcodeClip returns
\* the bytes and the verification of the clip starts.
DeleteOutputDone(r) ==
    /\ ~MicrotaskPending(St)
    /\ runs[r].pc = "del"
    /\ Becomes([St EXCEPT
                  !.engines[runs[r].processor].files = @ \ {OutputPath(runs[r].index + 1)},
                  !.runs[r].pc = "verify"])

\* The awaited engine call was rejected (terminate(), or no worker).
RunRejected(r) ==
    /\ runs[r].pc \in EnginePcs
    /\ runs[r].fault # "none"
    /\ LET t == [St EXCEPT !.runs[r].fault = "none"]
       IN CASE runs[r].pc \in {"writeFile", "exec"} ->
                   Becomes(runCatch(t, r, toErrorMessage(runs[r].fault)))
            [] runs[r].pc = "del" ->
                   \* BrowserFFmpeg.deleteFile swallows the rejection
                   Becomes([t EXCEPT !.runs[r].pc = "verify"])
            [] runs[r].pc = "cleanup" ->
                   Becomes(finishRun(t, r))

\* verifyOutputBlob resolved: the clip is recorded and the loop goes on.
VerifyDone(r, event) ==
    /\ ~MicrotaskPending(St)
    /\ runs[r].pc = "verify"
    /\ LET clip == [job |-> runs[r].index + 1,
                    verifiedPlayable |-> (event = "canplay"),
                    verificationError |-> IF event = "canplay" THEN "none" ELSE event]
           a == appendOutput([St EXCEPT !.runs[r].generated = Append(@, clip)], clip)
       IN Becomes(loopIteration([a EXCEPT !.runs[r].index = @ + 1], r))

\* FFmpeg.deleteFile of the staged input resolved in the finally block.
CleanupDone(r) ==
    /\ ~MicrotaskPending(St)
    /\ runs[r].pc = "cleanup"
    /\ Becomes(finishRun([St EXCEPT !.engines[runs[r].processor].files = @ \ {InputPath(r)}], r))

VerifyEvents == {"canplay", "error"}

Next ==
    \/ HandleIncomingFile
    \/ HandleTrim
    \/ HandleAutoSplit
    \/ HandleMultiCut
    \/ HandlePauseQueue
    \/ HandleResumeQueue
    \/ HandleCancelQueue
    \/ HandleDownloadAll
    \/ \E ok \in BOOLEAN : ZipDone(ok)
    \/ \E l \in LoadIds : LoadFetched(l)
    \/ \E l \in LoadIds : LoadFetchFailed(l)
    \/ \E l \in LoadIds : LoadInitDone(l)
    \/ \E l \in LoadIds : LoadRejected(l)
    \/ \E r \in RunIds : RunAfterLoad(r)
    \/ \E r \in RunIds : FetchFileDone(r)
    \/ \E r \in RunIds : WriteDone(r)
    \/ \E r \in RunIds : GateTick(r)
    \/ \E r \in RunIds : ExecDone(r)
    \/ \E r \in RunIds, partialOutput \in BOOLEAN : ExecFailed(r, partialOutput)
    \/ \E r \in RunIds : ReadFailed(r)
    \/ \E r \in RunIds : DeleteOutputDone(r)
    \/ \E r \in RunIds : RunRejected(r)
    \/ \E r \in RunIds, event \in VerifyEvents : VerifyDone(r, event)
    \/ \E r \in RunIds : CleanupDone(r)

Spec == Init /\ [][Next]_vars

\* The job queue with its continuations scheduled: a microtask that is due
\* runs (the continuation of a settled load, of a rejected engine call), the
\* 120 ms timer of the gate fires, and a live worker answers the deleteFile
\* of the finally block.  Nothing is assumed of the user or of the engine's
\* other replies.
SpecLive ==
    /\ Spec
    /\ \A l \in LoadIds : WF_vars(LoadRejected(l))
    /\ \A r \in RunIds : WF_vars(RunAfterLoad(r))
    /\ \A r \in RunIds : WF_vars(RunRejected(r))
    /\ \A r \in RunIds : WF_vars(GateTick(r))
    /\ \A r \in RunIds : WF_vars(CleanupDone(r))

(***************************************************************************)
(* The validators on their own: any form, validated once                   *)
(***************************************************************************)
\* The component once a file was picked, the engine loaded and a first
\* simple cut completed: one verified clip is listed and one history entry.
FirstClip == [job |-> 1, verifiedPlayable |-> TRUE, verificationError |-> "none"]

AfterFirstRun ==
    /\ ui = [selectedFile |-> 1,
             isProcessing |-> FALSE, isCoreLoading |-> FALSE, isCoreLoaded |-> TRUE,
             queuePaused |-> FALSE, queueCancelRequested |-> FALSE,
             currentMode |-> "idle", error |-> NoError,
             outputs |-> <<FirstClip>>,
             history |-> <<[id |-> 1, outputCount |-> 1, clips |-> <<1>>]>>,
             recorded |-> 1,
             zip |-> <<>>, zipping |-> FALSE]
    /\ refs = [ffmpegRef |-> 1, coreLoadPromiseRef |-> 0,
               queueControl |-> queueControlInit,
               progressContext |-> progressContextInit]
    /\ engines = [i \in InstIds |->
                    IF i = 1 THEN [worker |-> TRUE, loaded |-> TRUE, files |-> {}]
                    ELSE FreshEngine]
    /\ loads = [l \in LoadIds |-> NoLoad]
    /\ runs = [r \in RunIds |->
                 IF r = 1
                 THEN [IdleRun EXCEPT !.pc = "done", !.mode = "single", !.jobs = 1,
                                      !.index = 1, !.processor = 1, !.file = 1,
                                      !.inputPath = TRUE, !.generated = <<FirstClip>>,
                                      !.transcoded = <<1>>,
                                      !.result = "Proceso completado"]
                 ELSE IdleRun]

InitValidate ==
    /\ AfterFirstRun
    /\ form \in SingleForms \cup AutoForms \cup MultiForms
    /\ validation = NoValidation
    /\ call = NoCall
    /\ returned = NotReturned

\* fail(message) emptying the clip list as the start of a run does.
failAndReset(t, message) ==
    [replaceOutputs(t, <<>>) EXCEPT !.ui.error = [message |-> message, partial |-> 0]]

\* fail(message) of the validators: the message is shown, null is returned.
fail(t, message) == [t EXCEPT !.ui.error = [message |-> message, partial |-> 0]]

\* handleTrim / handleAutoSplit / handleMultiCut once the validator returned
\* result: a null result ends the handler, any other is handed to processJobs.
Validated(mode, result) ==
    /\ validation = NoValidation
    /\ ~MicrotaskPending(St)
    /\ runButtonEnabled(St)
    /\ LET t == IF result.ok THEN processJobs(St, mode, Len(result.jobs))
                ELSE fail(St, result.error)
       IN /\ ui' = t.ui
          /\ refs' = t.refs
          /\ engines' = t.engines
          /\ loads' = t.loads
          /\ runs' = t.runs
    /\ validation' = result
    /\ UNCHANGED <<form, call, returned>>

ValidateSingleCut == form.kind = "single" /\ Validated("single", validateSingleCut(form))

ValidateAutoSplit == form.kind = "auto" /\ Validated("queue", validateAutoSplit(form))

ValidateMultiCut == form.kind = "multi" /\ Validated("queue", validateMultiCut(form))

NextValidate == ValidateSingleCut \/ ValidateAutoSplit \/ ValidateMultiCut

SpecValidate == InitValidate /\ [][NextValidate]_vars

(***************************************************************************)
(* The text helpers on their own: one call, any arguments                  *)
(***************************************************************************)
InitText ==
    /\ InitComponent
    /\ form = DefaultForm
    /\ validation = NoValidation
    /\ call \in ParseCalls \cup FormatCalls \cup NameTimeCalls \cup TranscodeCalls
    /\ returned = NotReturned

Returns(value) ==
    /\ returned = NotReturned
    /\ returned' = Returned(value)
    /\ UNCHANGED <<ui, refs, engines, loads, runs, form, validation, call>>

ParseTimeToSeconds ==
    call.fn = "parseTimeToSeconds" /\ Returns(parseTimeText(call.input))

FormatSecondsToTime ==
    /\ call.fn = "formatSecondsToTime"
    /\ Returns(formatSecondsToTime(call.secondsValue, call.includeMilliseconds))

FormatSecondsForName ==
    call.fn = "formatSecondsForName" /\ Returns(formatSecondsForName(call.seconds))

TranscodeClip == call.fn = "transcodeClip" /\ Returns(transcodeClipArgs(call.job))

NextText ==
    \/ ParseTimeToSeconds
    \/ FormatSecondsToTime
    \/ FormatSecondsForName
    \/ TranscodeClip

SpecText == InitText /\ [][NextText]_vars

(***************************************************************************)
(* buildOutputName on its own: one call, any pattern and file name         *)
(***************************************************************************)
InitName ==
    /\ InitComponent
    /\ form = DefaultForm
    /\ validation = NoValidation
    /\ call \in NameCalls
    /\ returned = NotReturned

BuildOutputName ==
    /\ call.fn = "buildOutputName"
    /\ Returns(buildOutputName(call.pattern, call.sourceName, call.index,
                               call.startSeconds, call.durationSeconds))

NextName == BuildOutputName

SpecName == InitName /\ [][NextName]_vars

(***************************************************************************)
(* The history on its own: completed runs recorded, the history cleared    *)
(***************************************************************************)
MaxRecords == 22

\* The history button "clear": setHistory([]) and persistHistory([]).
clearHistory(t) == [t EXCEPT !.ui.history = <<>>]

InitHistory ==
    /\ AfterFirstRun
    /\ form = DefaultForm
    /\ validation = NoValidation
    /\ call = NoCall
    /\ returned = NotReturned

\* One more run of the file has completed like the first and is recorded.
AddHistoryEntry ==
    /\ ui.recorded < MaxRecords
    /\ Becomes(addHistoryEntry(St, 1))

\* The button is disabled while the history is empty.
ClearHistory ==
    /\ ui.history # <<>>
    /\ Becomes(clearHistory(St))

NextHistory ==
    \/ AddHistoryEntry
    \/ ClearHistory

SpecHistory == InitHistory /\ [][NextHistory]_vars

(***************************************************************************)
(* The output verifier on its own: one verifyOutputBlob call               *)
(***************************************************************************)
MaxEvents == 3    \* media events delivered to one probe

VerificationResult(playable, durationSeconds, errorMessage) ==
    [playable |-> playable, durationSeconds |-> durationSeconds,
     errorMessage |-> errorMessage]

\* The frame of the call: its variables settled and durationSeconds, its
\* timer, and for the properties the events delivered so far and the number
\* of calls of resolve.
ProbeFrame ==
    [fn |-> "verifyOutputBlob", settled |-> FALSE, durationSeconds |-> NoDuration,
     timer |-> "armed", events |-> <<>>, resolves |-> 0]

\* video.duration as read by onloadedmetadata: a finite number or not
\* (NaN, Infinity).
MediaDurations ==
    {[finite |-> FALSE, seconds |-> 0]} \cup {[finite |-> TRUE, seconds |-> n] : n \in 0..MaxTime}

\* A probe: the frame of the call and the state of its promise.
Probe == [frame |-> call, promise |-> returned]

\* resolve(result): a promise keeps its first resolution.
resolve(p, result) ==
    [frame |-> [p.frame EXCEPT !.resolves = @ + 1],
     promise |-> IF p.promise.done THEN p.promise ELSE Returned(result)]

\* finish without its settled flag.
finishUnguarded(p, result) ==
    resolve([p EXCEPT !.frame.settled = TRUE, !.frame.timer = "cleared"], result)

\* finish(result): settles once, clears the timer, resolves.
finish(p, result) ==
    IF p.frame.settled THEN p
    ELSE resolve([p EXCEPT !.frame.settled = TRUE, !.frame.timer = "cleared"], result)

\* The event is delivered to the probe, which becomes p.
Delivered(event, p) ==
    /\ call.fn = "verifyOutputBlob"
    /\ call' = [p.frame EXCEPT !.events = Append(@, event)]
    /\ returned' = p.promise
    /\ UNCHANGED <<ui, refs, engines, loads, runs, form, validation>>

InitProbe ==
    /\ InitComponent
    /\ form = DefaultForm
    /\ validation = NoValidation
    /\ call = ProbeFrame
    /\ returned = NotReturned

\* The 12 s timer fires.
ProbeTimeout ==
    /\ call.fn = "verifyOutputBlob" /\ call.timer = "armed"
    /\ Delivered([kind |-> "timeout", duration |-> NoDuration],
                 finish(Probe, VerificationResult(FALSE, call.durationSeconds,
                                                  "Tiempo de verificacion agotado")))

OnLoadedMetadata(duration) ==
    /\ Len(call.events) < MaxEvents
    /\ Delivered([kind |-> "loadedmetadata",
                  duration |-> IF duration.finite THEN Duration(duration.seconds)
                               ELSE NoDuration],
                 IF duration.finite
                 THEN [Probe EXCEPT !.frame.durationSeconds = Duration(duration.seconds)]
                 ELSE Probe)

OnCanPlay ==
    /\ Len(call.events) < MaxEvents
    /\ Delivered([kind |-> "canplay", duration |-> NoDuration],
                 finish(Probe, VerificationResult(TRUE, call.durationSeconds, "none")))

OnError ==
    /\ Len(call.events) < MaxEvents
    /\ Delivered([kind |-> "error", duration |-> NoDuration],
                 finish(Probe, VerificationResult(FALSE, call.durationSeconds,
                                                  "No se pudo reproducir el clip generado")))

NextProbe ==
    \/ ProbeTimeout
    \/ \E duration \in MediaDurations : OnLoadedMetadata(duration)
    \/ OnCanPlay
    \/ OnError

\* A timer that was set and not cleared fires.
SpecProbe == InitProbe /\ [][NextProbe]_vars /\ WF_vars(ProbeTimeout)

(***************************************************************************)
(* The progress display on its own: one engine progress event              *)
(***************************************************************************)
\* A number as the ratio of two integers, the second positive.
Ratio(num, den) == [num |-> num, den |-> den]

Less(a, b) == a.num * b.den < b.num * a.den

\* A clamp that lets every value through.
clampNone(value, min, max) == value

\* clamp(value, min, max) = Math.min(Math.max(value, min), max)
clamp(value, min, max) ==
    IF Less(max, min) THEN min
    ELSE IF Less(value, min) THEN min
    ELSE IF Less(max, value) THEN max
    ELSE value

\* onProgress of the processor: the progress displayed after the event, the
\* progress displayed before being shown.  The remaining-time estimate the
\* handler also updates is read from the clock and is not held.
onProgress(context, event, shown) ==
    LET normalizedProgress == clamp(event, Ratio(0, 1), Ratio(1, 1))
        aggregated == Ratio((context.clipIndex * normalizedProgress.den
                             + normalizedProgress.num) * 100,
                            normalizedProgress.den * Max(context.totalClips, 1))
    IN IF context.mode = "idle" THEN shown
       ELSE IF context.mode = "single"
            THEN Ratio(normalizedProgress.num * 100, normalizedProgress.den)
       ELSE clamp(aggregated, Ratio(0, 1), Ratio(100, 1))

\* progressContextRef as processJobs leaves it: set for the run's mode and
\* job list, clipIndex the job in its loop, mode idle once the run is over.
ProgressContexts ==
    {[mode |-> mode, clipIndex |-> clipIndex, totalClips |-> totalClips] :
        mode \in {"idle", "single", "queue"},
        totalClips \in 1..MaxJobs, clipIndex \in 0..(MaxJobs - 1)}

\* The fraction reported by the engine, in thousandths: it is not always
\* within 0..1.
EngineFractions == {Ratio(n, 1000) : n \in {0 - 500, 0, 1, 250, 999, 1000, 1500}}

ProgressCalls ==
    {c \in [fn : {"onProgress"}, context : ProgressContexts, event : EngineFractions,
            shown : {Ratio(0, 1), Ratio(50, 1), Ratio(100, 1)}] :
        /\ c.context.clipIndex < c.context.totalClips
        /\ c.context.mode = "single" => c.context.totalClips = 1}

InitProgress ==
    /\ InitComponent
    /\ form = DefaultForm
    /\ validation = NoValidation
    /\ call \in ProgressCalls
    /\ returned = NotReturned

OnProgress ==
    call.fn = "onProgress" /\ Returns(onProgress(call.context, call.event, call.shown))

NextProgress == OnProgress

SpecProgress == InitProgress /\ [][NextProgress]_vars

(***************************************************************************)
(* Properties                                                              *)
(***************************************************************************)
IsPrefix(a, b) == Len(a) <= Len(b) /\ SubSeq(b, 1, Len(a)) = a

\* The validated job list of a run of n jobs is 1, ..., n.
Iota(n) == [k \in 1..n |-> k]

JobsOf(clips) == [k \in 1..Len(clips) |-> clips[k].job]

\* The step ends run r: its finally block completes.
Ended(r) == runs[r].pc # "done" /\ runs'[r].pc = "done"

\* Run r is active before and after the step.
StaysActive(r) == runs[r].pc \in ActivePcs /\ runs'[r].pc \in ActivePcs

\* C1: a run of N >= 2 jobs that is cancelled after the clip of job k was
\* appended and before job k + 1 starts (1 <= k < N) ends with exactly the
\* clips of jobs 1..k in the output list and with the cancelled status, and
\* no job after k is transcoded.
C1_CancelBetweenJobs ==
    [][\A r \in RunIds :
         (/\ Ended(r)
          /\ runs'[r].jobs >= 2
          /\ runs'[r].cancelAt = "gate"
          /\ runs'[r].index >= 1)
         => /\ JobsOf(ui'.outputs) = Iota(runs'[r].index)
            /\ runs'[r].result = "Proceso interrumpido"
            /\ runs'[r].transcoded = Iota(runs'[r].index)]_vars

\* C2: a run that waited at the gate while paused and was resumed, with no
\* cancel and no engine failure, ends with exactly one clip per job in the
\* output list, in job-list order, each job transcoded once.
C2_PauseResume ==
    [][\A r \in RunIds :
         (/\ Ended(r)
          /\ runs'[r].waited
          /\ runs'[r].cancelAt = "none"
          /\ runs'[r].result = "Proceso completado")
         => /\ JobsOf(ui'.outputs) = Iota(runs'[r].jobs)
            /\ runs'[r].transcoded = Iota(runs'[r].jobs)]_vars

\* C3: within a run transcodeClip is called on the jobs in job-list order,
\* each job at most once; the clips in the output list are in that order; and
\* the output list starts empty with the run and, over every step other than
\* the load of a source file, stays the list of the clips the run generated,
\* a prefix of the job list.
C3_JobOrder ==
    [][\A r \in RunIds :
         /\ runs'[r].transcoded = Iota(Len(runs'[r].transcoded))
         /\ Len(runs'[r].transcoded) <= runs'[r].jobs
         /\ JobsOf(runs'[r].generated) = Iota(Len(runs'[r].generated))
         /\ runs'[r].pc \in ActivePcs =>
              /\ \A j, k \in 1..Len(ui'.outputs) :
                     j < k => ui'.outputs[j].job < ui'.outputs[k].job
              /\ \A k \in 1..Len(ui'.outputs) :
                     ui'.outputs[k].job \in 1..Len(runs'[r].transcoded)
         /\ (runs[r].pc \notin ActivePcs /\ runs'[r].pc \in ActivePcs)
              => ui'.outputs = <<>>
         /\ (/\ StaysActive(r)
             /\ ~HandleIncomingFile
             /\ ui.outputs = runs[r].generated)
              => ui'.outputs = runs'[r].generated]_vars

\* A run appended the clips of all its jobs, at least two, and is in its
\* finally block.
C3_Witness ==
    \E r \in RunIds :
        /\ runs[r].pc = "cleanup"
        /\ runs[r].jobs >= 2
        /\ runs[r].transcoded = Iota(runs[r].jobs)
        /\ JobsOf(ui.outputs) = Iota(runs[r].jobs)

\* C4: at most one transcodeClip call is in flight and at most one run is
\* active, under every interleaving of start, pause, resume, cancel and
\* file-load events.
C4_OneTranscode ==
    /\ Cardinality({r \in RunIds : runs[r].pc \in TranscodePcs}) <= 1
    /\ Cardinality({r \in RunIds : runs[r].pc \in ActivePcs}) <= 1

\* A second run transcodes, with a pause requested, after a first run ended
\* and while every run button is disabled.
C4_Witness ==
    \E r, q \in RunIds :
        /\ runs[r].pc = "done"
        /\ runs[q].pc \in TranscodePcs
        /\ ui.queuePaused
        /\ ui.selectedFile # 0
        /\ ~runButtonEnabled(St)

\* C5: while a run is active the output list is append-only: no step between
\* the start and the end of the run removes or replaces a clip.
C5_AppendOnly ==
    [][\A r \in RunIds : StaysActive(r) => IsPrefix(ui.outputs, ui'.outputs)]_vars

\* C6: on every exit path of a run the staged input file is not in engine
\* storage, the progress context is idle, the processing flag is cleared and
\* the control flags are paused = false, cancelled = false.
C6_Finally ==
    [][\A r \in RunIds :
         Ended(r) =>
            /\ \A i \in InstIds : InputPath(r) \notin engines'[i].files
            /\ refs'.progressContext.mode = "idle"
            /\ ~ui'.isProcessing
            /\ ui'.currentMode = "idle"
            /\ refs'.queueControl = [paused |-> FALSE, cancelled |-> FALSE]
            /\ ~ui'.queuePaused /\ ~ui'.queueCancelRequested]_vars

\* A run whose input file was staged ended after its in-flight transcode was
\* cancelled.
C6_Witness ==
    \E r \in RunIds :
        /\ runs[r].pc = "done"
        /\ runs[r].inputPath
        /\ runs[r].cancelAt = "exec"
        /\ runs[r].result = "Proceso interrumpido"
        /\ ~ui.isProcessing

\* C7: when the transcode of job k fails with an engine error the run halts
\* (it enters its finally block), the output list holds the clips of jobs
\* 1..k-1, the error carries that count, and no further job is transcoded.
C7_FailureHalts ==
    [][\A r \in RunIds :
         /\ (/\ runs[r].pc = "exec"
             /\ runs[r].cancelAt = "none"
             /\ runs'[r].result = "Proceso interrumpido")
            => /\ runs'[r].pc \in {"cleanup", "done"}
               /\ JobsOf(ui'.outputs) = Iota(runs[r].index)
               /\ ui'.error.partial = runs[r].index
         /\ runs[r].result = "Proceso interrumpido"
            => Len(runs'[r].transcoded) <= Len(runs[r].transcoded)]_vars

\* C8: when the verification of a job's output ends, playable or not, the
\* clip is appended (an unplayable one with a reason) and the run goes on to
\* the next job or completes; only verified clips get a download link, and
\* the bulk ZIP holds only verified clips.
C8_VerificationFailure ==
    [][/\ \A r \in RunIds :
            (runs[r].pc = "verify" /\ runs'[r].pc # "verify") =>
               /\ Len(ui'.outputs) = Len(ui.outputs) + 1
               /\ ui'.outputs[Len(ui'.outputs)].job = runs[r].index + 1
               /\ \/ ui'.outputs[Len(ui'.outputs)].verifiedPlayable
                  \/ ui'.outputs[Len(ui'.outputs)].verificationError # "none"
               /\ runs'[r].index = runs[r].index + 1
               /\ ~refs.queueControl.cancelled =>
                     IF runs'[r].index < runs'[r].jobs
                     THEN runs'[r].pc \in {"gate", "exec"}
                     ELSE runs'[r].result = "Proceso completado"
       /\ \A k \in 1..Len(ui'.outputs) :
            downloadLinkShown(ui'.outputs[k]) => ui'.outputs[k].verifiedPlayable
       /\ \A k \in 1..Len(ui'.zip) : ui'.zip[k].verifiedPlayable]_vars

\* A run completed all its jobs although the clip of its first job failed
\* verification, and that clip is in the output list without a download link.
C8_Witness ==
    \E r \in RunIds :
        /\ runs[r].jobs >= 2
        /\ runs[r].result = "Proceso completado"
        /\ Len(ui.outputs) = runs[r].jobs
        /\ ~ui.outputs[1].verifiedPlayable
        /\ ~downloadLinkShown(ui.outputs[1])
        /\ Len(downloadableOutputs(St)) < Len(ui.outputs)

\* C9: once cancel was requested while a transcodeClip call of the run was
\* in flight, no clip is appended to the output list for the rest of the run.
C9_CancelInFlight ==
    [][\A r \in RunIds :
         (runs[r].pc \in ActivePcs /\ runs[r].cancelAt \in TranscodePcs)
         => Len(ui'.outputs) <= Len(ui.outputs)]_vars

\* C10: writeInputFile and transcodeClip are only called on an engine
\* instance whose load() completed since it was created or last terminated,
\* and the engine is not taken as ready while the current instance is not
\* loaded.
C10_LoadedBeforeUse ==
    /\ \A r \in RunIds : ~runs[r].unloadedCall
    /\ ui.isCoreLoaded => engines[refs.ffmpegRef].loaded

\* The initializations (BrowserFFmpeg.load calls) in flight on instance i.
LoadsInFlight(i) == {l \in LoadIds : loads[l].stage # "none" /\ loads[l].inst = i}

\* C11: engine loading is de-duplicated: an engine instance never has two
\* initializations in flight (a caller arriving during one awaits it), and
\* no initialization is in flight on an instance that is already loaded.
C11_LoadDeduplicated ==
    \A i \in InstIds :
        /\ Cardinality(LoadsInFlight(i)) <= 1
        /\ engines[i].loaded => LoadsInFlight(i) = {}

\* C12: at most one engine worker is live at any time, and an instance that
\* a reset replaced stays terminated: it has no worker and is never loaded
\* again.
C12_OneLiveWorker ==
    /\ Cardinality({i \in InstIds : engines[i].worker}) <= 1
    /\ \A i \in InstIds :
           i < refs.ffmpegRef => ~engines[i].worker /\ ~engines[i].loaded

\* C13: a run, in any mode, that was not cancelled, whose engine loaded and
\* whose transcodes all succeeded ends with the completed status and exactly
\* one clip per job in the output list.
C13_RunCompletes ==
    [][\A r \in RunIds :
         (/\ Ended(r)
          /\ runs'[r].mode \in {"single", "queue"}
          /\ runs'[r].cancelAt = "none"
          /\ runs'[r].result \notin {"Proceso interrumpido", "Error al cargar ffmpeg.wasm"})
         => /\ runs'[r].result = "Proceso completado"
            /\ Len(ui'.outputs) = runs'[r].jobs
            /\ JobsOf(ui'.outputs) = Iota(runs'[r].jobs)]_vars

\* The texts reported only for a cancelled run.
CancelTexts == {"Procesamiento cancelado por el usuario", "El motor ffmpeg se reinicio"}

\* C14: when a run enters its catch block, a cancel that took effect at the
\* gate is reported with the cancellation message, a cancel that terminated
\* the in-flight transcode with the engine-restart message, and a failure of
\* a run that was not cancelled with neither of these texts.
C14_CancelText ==
    [][\A r \in RunIds :
         (runs[r].result = "none" /\ runs'[r].result = "Proceso interrumpido")
         => /\ runs[r].cancelAt = "gate"
                => ui'.error.message = "Procesamiento cancelado por el usuario"
            /\ runs[r].cancelAt = "exec"
                => ui'.error.message = "El motor ffmpeg se reinicio"
            /\ runs[r].cancelAt = "none"
                => ui'.error.message \notin CancelTexts]_vars

\* A run whose in-flight transcode was terminated by a cancel ended, and the
\* engine-restart message is shown.
C14_Witness ==
    \E r \in RunIds :
        /\ runs[r].pc = "done"
        /\ runs[r].cancelAt = "exec"
        /\ runs[r].result = "Proceso interrumpido"
        /\ ui.error.message = "El motor ffmpeg se reinicio"

(***************************************************************************)
(* Properties of the validators                                            *)
(***************************************************************************)
Range(seq) == {seq[k] : k \in 1..Len(seq)}

JobEnd(job) == job.startSeconds + job.durationSeconds

\* C15: every job a validator returns starts at or after 0 and has a positive
\* duration, and when the total duration T is known it starts before T and
\* ends no later than T plus the tolerance.
C15_JobInvariants ==
    \A job \in Range(validation.jobs) :
        /\ job.startSeconds >= 0
        /\ job.durationSeconds > 0
        /\ form.videoDurationSeconds.known =>
            /\ job.startSeconds < form.videoDurationSeconds.seconds
            /\ JobEnd(job) <= form.videoDurationSeconds.seconds + DURATION_EPSILON

\* A split whose last clip is cut short so that it ends at T.
C15_Witness ==
    /\ form.kind = "auto" /\ validation.ok
    /\ \E job \in Range(validation.jobs) :
          /\ job.durationSeconds < form.clipLengthInput.value
          /\ JobEnd(job) = form.videoDurationSeconds.seconds

ClampNotice == Notice(1, "Duration ajustada automaticamente")

\* The single-range rules for a known total duration T, the clamping rule
\* being stated for starts that leave more than minRemaining before T.
SingleRangeRules(minRemaining) ==
    LET T == form.videoDurationSeconds.seconds
        typed == form.startInput.kind \in {"blank", "time"}
        start == IF form.startInput.kind = "time" THEN form.startInput.value ELSE 0
        requested == form.durationInput.value
    IN (form.kind = "single" /\ validation # NoValidation) =>
        /\ validation.ok => Len(validation.jobs) = 1
        /\ form.videoDurationSeconds.known =>
            /\ (/\ typed /\ start < T /\ T - start > minRemaining
                /\ form.durationInput.kind = "time"
                /\ requested > (T - start) + DURATION_EPSILON)
               => /\ validation.ok
                  /\ validation.jobs = <<ClipJob(0, start, T - start)>>
                  /\ ClampNotice \in Range(validation.notices)
            /\ (typed /\ start >= T) => ~validation.ok
            /\ form.startInput.kind = "minus" => ~validation.ok

\* T = 100 s, start = 90 s, duration = 20 s.
SingleExample ==
    [kind |-> "single", startInput |-> Time(Seconds(90)),
     durationInput |-> Time(Seconds(20)), videoDurationSeconds |-> Duration(Seconds(100))]

\* C16: single-range validation with known total T: when the start leaves
\* more than the tolerance before T (T - start > 0.001) and the requested
\* duration exceeds T - start by more than 0.001, the one job has duration
\* exactly T - start and a clamping notice is emitted (T=100, start=90,
\* duration=20 gives duration 10); a start at or after T fails; a negative
\* start fails; a success produces exactly one job.
C16_SingleClamp ==
    /\ SingleRangeRules(DURATION_EPSILON)
    /\ validateSingleCut(SingleExample) =
         Valid(<<ClipJob(0, Seconds(90), Seconds(10))>>, <<ClampNotice>>)
    /\ ~validateSingleCut([SingleExample EXCEPT !.startInput = Time(Seconds(100))]).ok
    /\ ~validateSingleCut([SingleExample EXCEPT !.startInput = Minus]).ok

\* C16 as stated: the clamping rule for every start with 0 <= start < T.
C16_SingleClampAnyStart == SingleRangeRules(0)

C16_Witness ==
    /\ form.kind = "single" /\ validation.ok
    /\ form.videoDurationSeconds.known
    /\ ClampNotice \in Range(validation.notices)
    /\ validation.jobs[1].durationSeconds < form.durationInput.value

\* The clips the auto-split rule asks for, given start s, clip length L and
\* total T: the i-th runs from s + i*L for min(L, T - start), for every i
\* whose start leaves more than the tolerance before T.
ExpectedSplit(s, L, T) ==
    LET count == Cardinality({i \in 0..T : s + i * L < T - DURATION_EPSILON})
    IN [i \in 1..count |->
           ClipJob(i - 1, s + (i - 1) * L, Min(L, T - (s + (i - 1) * L)))]

\* T = 100 s, start = 0, clip length = 34 s.
AutoExample ==
    [kind |-> "auto", autoStartInput |-> Time(0),
     clipLengthInput |-> Time(Seconds(34)), videoDurationSeconds |-> Duration(Seconds(100))]

\* C17: auto-split with known total T, start s < T and clip length L > 0
\* returns the clips s + i*L of duration min(L, T - start), stopping when no
\* more than 0.001 remains; the clips are contiguous and end within the
\* tolerance of T (T=100, s=0, L=34 gives starts 0, 34, 68 and durations 34,
\* 34, 32); validation fails when T is unknown or when no clip would result.
C17_AutoSplit ==
    /\ (form.kind = "auto" /\ validation # NoValidation) =>
         LET T == form.videoDurationSeconds.seconds
             s == IF form.autoStartInput.kind = "time" THEN form.autoStartInput.value ELSE 0
             L == form.clipLengthInput.value
             jobs == validation.jobs
         IN /\ ~form.videoDurationSeconds.known => ~validation.ok
            /\ validation.ok => jobs # <<>>
            /\ (/\ form.videoDurationSeconds.known
                /\ form.autoStartInput.kind \in {"blank", "time"}
                /\ form.clipLengthInput.kind = "time" /\ L > 0 /\ s < T)
               => /\ validation.ok <=> ExpectedSplit(s, L, T) # <<>>
                  /\ jobs = ExpectedSplit(s, L, T)
                  /\ \A k \in 2..Len(jobs) : jobs[k].startSeconds = JobEnd(jobs[k - 1])
                  /\ validation.ok =>
                       /\ jobs[1].startSeconds = s
                       /\ JobEnd(jobs[Len(jobs)]) <= T
                       /\ JobEnd(jobs[Len(jobs)]) >= T - DURATION_EPSILON
    /\ validateAutoSplit(AutoExample) =
         Valid(<<ClipJob(0, 0, Seconds(34)), ClipJob(1, Seconds(34), Seconds(34)),
                 ClipJob(2, Seconds(68), Seconds(32))>>, <<>>)

\* A split into several clips that stops one tolerance short of T.
C17_Witness ==
    /\ form.kind = "auto" /\ validation.ok
    /\ Len(validation.jobs) >= 2
    /\ JobEnd(validation.jobs[Len(validation.jobs)]) < form.videoDurationSeconds.seconds

StartNotice(row) == Notice(row, "inicio vacio")

\* Rows (0 s, 10 s) and (blank, 20 s), T = 30 s.
MultiExample ==
    [kind |-> "multi",
     multiCuts |-> <<[startInput |-> Time(0), endInput |-> Time(Seconds(10))],
                     [startInput |-> Blank, endInput |-> Time(Seconds(20))]>>,
     videoDurationSeconds |-> Duration(Seconds(30))]

\* C18: in multi-range validation a cut made from a row with a blank start
\* and a typed end starts where the cut of the nearest earlier row that was
\* kept ends, at 0 when there is none (so for the first row), and a notice
\* is emitted for that row; rows (0,10), (blank,20) with total 30 give the
\* cuts (start 0, duration 10) and (start 10, duration 10).
C18_BlankStart ==
    /\ (form.kind = "multi" /\ validation.ok) =>
         \A n \in 1..Len(validation.jobs) :
             LET job == validation.jobs[n]
                 cut == form.multiCuts[job.index + 1]
             IN cut.startInput.kind = "blank" =>
                 /\ cut.endInput.kind # "blank"
                 /\ job.startSeconds =
                      IF n = 1 THEN 0 ELSE JobEnd(validation.jobs[n - 1])
                 /\ StartNotice(job.index + 1) \in Range(validation.notices)
    /\ validateMultiCut(MultiExample) =
         Valid(<<ClipJob(0, 0, Seconds(10)), ClipJob(1, Seconds(10), Seconds(10))>>,
               <<StartNotice(2)>>)

C18_Witness ==
    /\ form.kind = "multi" /\ validation.ok
    /\ Len(validation.jobs) = 2
    /\ form.multiCuts[2].startInput.kind = "blank"
    /\ validation.jobs[2].startSeconds = JobEnd(validation.jobs[1])
    /\ validation.jobs[2].startSeconds > 0

\* Where the cut of a row with a typed end stops: at T when typed beyond it.
PlainEnd(cut, T) ==
    IF cut.endInput.value > T + DURATION_EPSILON THEN T ELSE cut.endInput.value

\* A row with both fields typed that is kept as a cut whatever precedes it.
PlainRow(cut, T) ==
    /\ cut.startInput.kind = "time" /\ cut.endInput.kind = "time"
    /\ cut.startInput.value < T
    /\ PlainEnd(cut, T) > cut.startInput.value + DURATION_EPSILON

EndSkipNotice(row) == Notice(row, "inicia en el final del video, se omite")

\* C19: in multi-range validation with known total T, a row whose start
\* (typed, or defaulted to the end of the previous cut) is at or after T is
\* skipped with a notice when its end field is blank, and makes the whole
\* validation fail when its end field is typed.  Stated for the last row of
\* a form whose earlier rows are all kept as cuts.
C19_StartAtOrAfterEnd ==
    (form.kind = "multi" /\ validation # NoValidation /\ form.videoDurationSeconds.known) =>
        LET T == form.videoDurationSeconds.seconds
            last == Len(form.multiCuts)
            cut == form.multiCuts[last]
            previousEnd == IF last = 1 THEN 0 ELSE PlainEnd(form.multiCuts[last - 1], T)
            start == IF cut.startInput.kind = "time" THEN cut.startInput.value ELSE previousEnd
        IN (/\ \A k \in 1..(last - 1) : PlainRow(form.multiCuts[k], T)
            /\ cut.startInput.kind \in {"blank", "time"}
            /\ cut.endInput.kind \in {"blank", "time"}
            /\ ~(cut.startInput = Blank /\ cut.endInput = Blank)
            /\ start >= T)
           => IF cut.endInput.kind = "blank"
              THEN /\ validation.ok <=> last > 1
                   /\ Len(validation.jobs) = last - 1
                   /\ validation.ok => EndSkipNotice(last) \in Range(validation.notices)
                   /\ ~validation.ok => validation.error = "No hay cortes validos para procesar"
              ELSE ~validation.ok

EmptyRowNotice(row) == Notice(row, "fila vacia, se omite")

BothBlank(cut) == cut.startInput = Blank /\ cut.endInput = Blank

EmptyRows(f) == {k \in 1..Len(f.multiCuts) : BothBlank(f.multiCuts[k])}

\* The form with its empty rows removed.
WithoutEmptyRows(f) ==
    [f EXCEPT !.multiCuts = SelectSeq(f.multiCuts, LAMBDA cut : ~BothBlank(cut))]

\* The ranges of the cuts, without their row numbers.
Ranges(jobs) ==
    [n \in 1..Len(jobs) |-> <<jobs[n].startSeconds, jobs[n].durationSeconds>>]

\* C20: in multi-range validation a row with both fields blank gives no cut
\* and a notice, and does not by itself make validation fail: the outcome is
\* that of the same form without its empty rows; validation fails, with no
\* cuts, when every row ends up skipped.
C20_EmptyRows ==
    (form.kind = "multi" /\ validation # NoValidation) =>
        /\ \A k \in EmptyRows(form) :
              /\ \A job \in Range(validation.jobs) : job.index + 1 # k
              /\ validation.ok => EmptyRowNotice(k) \in Range(validation.notices)
        /\ validation.ok = validateMultiCut(WithoutEmptyRows(form)).ok
        /\ Ranges(validation.jobs) = Ranges(validateMultiCut(WithoutEmptyRows(form)).jobs)
        /\ validation.ok <=> validation.jobs # <<>>
        /\ EmptyRows(form) = 1..Len(form.multiCuts) =>
              validation = Fail("No hay cortes validos para procesar")

\* An empty row next to a row that is kept.
C20_Witness ==
    /\ form.kind = "multi" /\ validation.ok
    /\ EmptyRows(form) # {}
    /\ Len(validation.jobs) = 1

(***************************************************************************)
(* Properties of the run handlers                                          *)
(***************************************************************************)
\* C21: when the validation of a mode fails, no run starts and nothing but
\* the error message changes: no activation of processJobs, no engine call
\* or load, and the clip list, the history and the queue control flags are
\* as before.
C21_FailedValidationFrame ==
    [][(validation = NoValidation /\ validation' # NoValidation /\ ~validation'.ok)
        => /\ runs' = runs
           /\ engines' = engines
           /\ loads' = loads
           /\ refs' = refs
           /\ ui'.outputs = ui.outputs
           /\ ui'.history = ui.history
           /\ ui'.isProcessing = ui.isProcessing
           /\ ui'.currentMode = ui.currentMode
           /\ ui'.queuePaused = ui.queuePaused
           /\ ui'.queueCancelRequested = ui.queueCancelRequested]_vars

\* A failed validation: its message is shown and the earlier clip is listed.
C21_Witness ==
    /\ validation # NoValidation /\ ~validation.ok
    /\ ui.error.message = validation.error
    /\ ui.outputs = <<FirstClip>>
    /\ \A r \in RunIds : runs[r].pc \notin ActivePcs

(***************************************************************************)
(* Properties of the output names and of the times as text                 *)
(***************************************************************************)
\* The {idx} token of buildOutputName: String(index).padStart(3, '0').
idxToken(index) == padStart(String_(index), 3, "0")

\* C22: in every validation result the {idx} token of the k-th job
\* (k = 0, 1, 2, ...) is k zero-padded to 3 digits, also when rows of the
\* multi-range form were skipped.
C22_IdxIsOrdinal ==
    \A k \in 1..Len(validation.jobs) :
        idxToken(validation.jobs[k].index) = padStart(String_(k - 1), 3, "0")

Letters ==
    {"a", "b", "c", "d", "e", "f", "g", "h", "i", "j", "k", "l", "m", "n", "o", "p", "q",
     "r", "s", "t", "u", "v", "w", "x", "y", "z",
     "A", "B", "C", "D", "E", "F", "G", "H", "I", "J", "K", "L", "M", "N", "O", "P", "Q",
     "R", "S", "T", "U", "V", "W", "X", "Y", "Z"}

\* A-Z a-z 0-9 . _ -
NameSafe(c) == c \in Letters \/ IsDigit(c) \/ c \in {".", "_", "-"}

\* C23: for every naming pattern and source file name, the output name
\* built holds only characters of A-Z a-z 0-9 . _ - (so no blank), and ends
\* in .mp4.
C23_SafeName ==
    (call.fn = "buildOutputName" /\ returned.done) =>
        /\ \A k \in 1..Len(returned.value) : NameSafe(returned.value[k])
        /\ endsWith(returned.value, Mp4Suffix)

\* hh<sep>mm<sep>ss<last>mmm: two or more digits, two, two and three digits.
ClockShape(s, sep, last) ==
    LET n == Len(s)
    IN /\ n >= 12
       /\ s[n - 3] = last /\ s[n - 6] = sep /\ s[n - 9] = sep
       /\ \A k \in 1..n : k \notin {n - 3, n - 6, n - 9} => IsDigit(s[k])

\* C24: a time token of an output name is rendered as HH-MM-SS-mmm, with
\* the 3-digit millisecond field, for every time value, whole seconds too.
C24_NameTimeHasMillis ==
    (call.fn = "formatSecondsForName" /\ returned.done) =>
        ClockShape(returned.value, "-", "-")

Separators == {":", ".", ","}

\* Digits with an optional decimal part.
NumericField(x) == WithDecimals(x, AllDigits)

\* Digits and separators only, with a separator out of place: at either end,
\* next to another one, a third colon, a second decimal separator, or a
\* decimal separator before a colon.
MalformedSeparators(v) ==
    /\ v # <<>>
    /\ \A k \in 1..Len(v) : IsDigit(v[k]) \/ v[k] \in Separators
    /\ \/ v[1] \in Separators
       \/ v[Len(v)] \in Separators
       \/ \E k \in 1..(Len(v) - 1) : v[k] \in Separators /\ v[k + 1] \in Separators
       \/ Len(Fields(v)) > 3
       \/ Cardinality({k \in 1..Len(v) : v[k] \in {".", ","}}) > 1
       \/ \E j, k \in 1..Len(v) : j < k /\ v[j] \in {".", ","} /\ v[k] = ":"

\* The fields of v are numbers, those before the last whole numbers.
ClockFields(v) ==
    /\ \A i \in 1..(Len(Fields(v)) - 1) : AllDigits(Fields(v)[i])
    /\ NumericField(Fields(v)[Len(Fields(v))])

\* h*3600 + m*60 + s of the fields of v, the missing leading fields being 0.
ClockValue(v) ==
    LET f == Fields(v)
        n == Len(f)
        h == IF n = 3 THEN DigitsValue(f[1]) ELSE 0
        m == IF n >= 2 THEN DigitsValue(f[n - 1]) ELSE 0
    IN Real(h * 3600 + m * 60 + Number(f[n]).whole, Number(f[n]).decimals)

\* The parsing rules, the minute field of MM:SS being held to the range
\* 0..59 or not.
ParseRules(minutesOfMmSsBounded) ==
    (call.fn = "parseTimeToSeconds" /\ returned.done) =>
        LET v == trim(call.input)
            f == Fields(v)
            n == Len(f)
            result == returned.value
        IN /\ v = <<>> => ~result.valid
           /\ (\E k \in 1..Len(v) : v[k] = "-") => ~result.valid
           /\ MalformedSeparators(v) => ~result.valid
           /\ (/\ n \in {2, 3} /\ ClockFields(v)
               /\ \/ DigitsValue(WholePart(f[n])) >= 60
                  \/ (n = 3 \/ minutesOfMmSsBounded) /\ DigitsValue(f[n - 1]) >= 60)
              => ~result.valid
           /\ result.valid =>
                /\ n \in {1, 2, 3} /\ ClockFields(v)
                /\ result.seconds = ClockValue(v)

\* C25: parseTimeToSeconds returns null for the empty string, for a number
\* written with a minus sign, for misplaced separators, and for a minute or
\* second field of 60 or more in HH:MM:SS or MM:SS; it returns a number only
\* for a string of one of the three forms, and then h*3600 + m*60 + s.
C25_ParseRejects == ParseRules(TRUE)

WholeMilliseconds(secondsValue) == secondsValue.whole >= 0 /\ secondsValue.decimals % 10 = 0

\* C26: a non-negative whole number of milliseconds, formatted with its
\* milliseconds and parsed, is the same time again; a valid time string,
\* parsed, formatted and parsed again, is the same time to the millisecond.
C26_RoundTrip ==
    /\ (/\ call.fn = "formatSecondsToTime" /\ returned.done
        /\ call.includeMilliseconds /\ WholeMilliseconds(call.secondsValue))
       => parseTimeText(returned.value) = Parsed(call.secondsValue)
    /\ (call.fn = "parseTimeToSeconds" /\ returned.done /\ returned.value.valid)
       => LET again == parseTimeText(formatSecondsToTime(returned.value.seconds, TRUE))
          IN /\ again.valid
             /\ RoundToMilliseconds(again.seconds) = RoundToMilliseconds(returned.value.seconds)

\* 100:59:59.005 has been formatted with its milliseconds.
C26_Witness ==
    /\ call.fn = "formatSecondsToTime" /\ returned.done /\ call.includeMilliseconds
    /\ call.secondsValue = Real(363599, 50)
    /\ returned.value = <<"1", "0", "0", ":", "5", "9", ":", "5", "9", ".", "0", "0", "5">>

\* text is HH:MM:SS.mmm and names the time secondsValue to the millisecond.
EngineTime(text, secondsValue) ==
    /\ ClockShape(text, ":", ".")
    /\ parseTimeText(text).valid
    /\ RoundToMilliseconds(parseTimeText(text).seconds) = RoundToMilliseconds(secondsValue)

\* Where the words of the argument list stand, the two times (2 and 6) aside.
ArgWords == (1..19) \ {2, 6}

\* The engine profile with the given preset, for a job of non-negative start
\* and duration.
EngineProfile(preset) ==
    (/\ call.fn = "transcodeClip" /\ returned.done
     /\ call.job.startSeconds.whole >= 0 /\ call.job.durationSeconds.whole >= 0)
    => LET args == returned.value
       IN /\ Len(args) = 19
          /\ args[1] = "-ss" /\ EngineTime(args[2], call.job.startSeconds)
          /\ args[3] = "-i" /\ args[4] = call.job.inputPath
          /\ args[5] = "-t" /\ EngineTime(args[6], call.job.durationSeconds)
          /\ args[7] = "-c:v" /\ args[8] = "libx264"
          /\ args[9] = "-preset" /\ args[10] = preset
          /\ args[11] = "-crf" /\ args[12] = "23"
          /\ args[13] = "-c:a" /\ args[14] = "aac"
          /\ args[15] = "-b:a" /\ args[16] = "128k"
          /\ args[17] = "-movflags" /\ args[18] = "+faststart"
          /\ args[19] = call.job.outputPath
          /\ \A k \in ArgWords : args[k] # "copy"

\* C27 (as stated): every transcodeClip invocation seeks to the job's start
\* and limits to its duration, both as HH:MM:SS.mmm, encodes H.264 with
\* preset fast and CRF 23 and AAC at 128 kbps with fast-start placement, and
\* never uses stream copy.
C27_EngineProfileFast == EngineProfile("fast")

\* C27 (amended): the same profile with the preset veryfast.
C27_EngineProfile == EngineProfile("veryfast")

\* A job starting at a whole second, of 0.005 s, has been handed to the engine:
\* both times carry their three millisecond digits.
C27_Witness ==
    /\ call.fn = "transcodeClip" /\ returned.done
    /\ call.job.startSeconds = Real(3599, 0) /\ call.job.durationSeconds = Real(0, 50)
    /\ returned.value[2] = <<"0", "0", ":", "5", "9", ":", "5", "9", ".", "0", "0", "0">>
    /\ returned.value[6] = <<"0", "0", ":", "0", "0", ":", "0", "0", ".", "0", "0", "5">>

(***************************************************************************)
(* Properties of the history and of the queue gate                         *)
(***************************************************************************)
\* The run r reports normal completion in this step.
Completes(r) ==
    runs[r].result # "Proceso completado" /\ runs'[r].result = "Proceso completado"

\* entry is the summary of a run of n jobs: its clips in job-list order.
RunSummary(entry, n) == entry.outputCount = n /\ entry.clips = [k \in 1..n |-> k]

\* C28: a run that has processed all of its jobs records exactly one history
\* entry, placed first, whose clips are the run's clips in job-list order and
\* whose output count is the number of jobs; nothing else puts an entry in.
C28_HistoryOnCompletion ==
    [][/\ \A r \in RunIds :
            Completes(r) =>
                /\ ui'.history # <<>>
                /\ RunSummary(Head(ui'.history), runs[r].jobs)
                /\ Tail(ui'.history)
                     = SubSeq(ui.history, 1, Len(ui'.history) - 1)
                /\ Len(ui'.history) \in {Len(ui.history) + 1, HISTORY_LIMIT}
       /\ (ui'.history # ui.history /\ ui'.history # <<>>) =>
            \E r \in RunIds : Completes(r)]_vars

\* A second run, of two jobs, has completed: its entry stands before the
\* entry of the first run, of one job.
C28_Witness ==
    /\ Len(ui.history) = 2
    /\ RunSummary(ui.history[1], 2)
    /\ RunSummary(ui.history[2], 1)
    /\ runs[2].result = "Proceso completado" /\ runs[2].jobs = 2

Paused == refs.queueControl.paused /\ ~refs.queueControl.cancelled

\* The run r calls transcodeClip in this step.
StartsTranscode(r) == Len(runs'[r].transcoded) > Len(runs[r].transcoded)

\* C30: no transcodeClip call starts while the paused flag is set; a pause
\* leaves the job in flight as it is, its clip is still verified and
\* appended, and the run then stays at the gate before the next job for as
\* long as the queue is paused and not cancelled; only a resume or a cancel
\* takes the pause away from a run waiting there.
C30_PauseGate ==
    [][/\ \A r \in RunIds :
            StartsTranscode(r) =>
                ~refs.queueControl.paused /\ ~refs'.queueControl.paused
       /\ (~refs.queueControl.paused /\ refs'.queueControl.paused) =>
            /\ runs' = runs
            /\ ui'.outputs = ui.outputs
       /\ \A r \in RunIds :
            (Paused /\ runs[r].pc = "verify" /\ runs'[r].pc # "verify") =>
                /\ Len(runs'[r].generated) = Len(runs[r].generated) + 1
                /\ ui'.outputs # <<>>
                /\ ui'.outputs[Len(ui'.outputs)].job = runs[r].index + 1
                /\ runs[r].index + 1 < runs[r].jobs => runs'[r].pc = "gate"
       /\ \A r \in RunIds :
            (Paused /\ runs[r].pc = "gate" /\ runs'[r].pc # "gate") =>
                ~refs'.queueControl.paused \/ refs'.queueControl.cancelled
       /\ (/\ refs.queueControl.paused /\ ~refs'.queueControl.paused
           /\ \E r \in RunIds : runs[r].pc = "gate") =>
            \/ refs'.queueControl.cancelled
            \/ runs' = runs /\ ui'.isProcessing = ui.isProcessing]_vars

\* The queue was paused while the first job was in flight: its clip has been
\* appended and the run waits at the gate before the second job.
C30_Witness ==
    \E r \in RunIds :
        /\ Paused
        /\ runs[r].pc = "gate" /\ runs[r].waited
        /\ runs[r].index = 1 /\ runs[r].transcoded = <<1>>
        /\ Len(runs[r].generated) = 1
        /\ ui.outputs # <<>> /\ ui.outputs[Len(ui.outputs)].job = 1

\* Entries stand most recent first: ids fall along the list.
MostRecentFirst(history) ==
    \A i, j \in 1..Len(history) : i < j => history[i].id > history[j].id

\* C29: the history never holds more than 20 entries and holds them most
\* recent first; recording a run into a full history drops the oldest entry
\* and keeps the others in their order, behind the new one.
C29_HistoryBounded ==
    /\ [](Len(ui.history) <= HISTORY_LIMIT /\ MostRecentFirst(ui.history))
    /\ [][(Len(ui.history) = HISTORY_LIMIT /\ ui'.recorded > ui.recorded) =>
            /\ Len(ui'.history) = HISTORY_LIMIT
            /\ Head(ui'.history).id = ui'.recorded
            /\ Tail(ui'.history) = SubSeq(ui.history, 1, HISTORY_LIMIT - 1)]_vars

\* Twenty-two runs were recorded without a clear: the two oldest entries are
\* gone and the other twenty stand most recent first.
C29_Witness ==
    /\ Len(ui.history) = HISTORY_LIMIT
    /\ ui.recorded = HISTORY_LIMIT + 2
    /\ ui.history[1].id = HISTORY_LIMIT + 2
    /\ ui.history[HISTORY_LIMIT].id = 3

(***************************************************************************)
(* Properties of the loop: verification, cancellation, temporary outputs   *)
(***************************************************************************)
\* A clip is put at the end of the output list in this step.
AppendsClip == ui'.outputs # <<>> /\ ui'.outputs # ui.outputs

AppendedClip == ui'.outputs[Len(ui'.outputs)]

\* C31: a clip is appended to the output list only when the verification of
\* its own bytes resolves, with the result of that verification (an
\* unplayable clip is listed too, with its error); a job's transcode starts
\* only when the clips of all the jobs before it were verified and appended.
C31_VerifiedBeforeAppended ==
    [][/\ AppendsClip =>
            \E r \in RunIds :
                /\ runs[r].pc = "verify" /\ runs'[r].pc # "verify"
                /\ AppendedClip.job = runs[r].index + 1
                /\ runs[r].transcoded[Len(runs[r].transcoded)] = AppendedClip.job
                /\ runs'[r].generated = Append(runs[r].generated, AppendedClip)
                /\ AppendedClip.verifiedPlayable = (AppendedClip.verificationError = "none")
                /\ \/ ui'.outputs = Append(ui.outputs, AppendedClip)
                   \/ ui'.outputs = <<AppendedClip>>
       /\ \A r \in RunIds :
            (runs[r].pc = "verify" /\ runs'[r].pc # "verify") => AppendsClip
       /\ \A r \in RunIds :
            StartsTranscode(r) =>
                /\ runs[r].pc \notin {"exec", "del"}
                /\ runs[r].pc = "verify" => AppendsClip
                /\ Len(runs'[r].generated) = Len(runs[r].transcoded)
                /\ \A k \in 1..Len(runs'[r].generated) : runs'[r].generated[k].job = k
                /\ runs'[r].transcoded
                     = Append(runs[r].transcoded, Len(runs'[r].generated) + 1)]_vars

\* The second job is being transcoded and the clip of the first, found
\* unplayable, is in the output list.
C31_Witness ==
    \E r \in RunIds :
        /\ runs[r].pc = "exec" /\ runs[r].transcoded = <<1, 2>>
        /\ Len(runs[r].generated) = 1
        /\ ~runs[r].generated[1].verifiedPlayable
        /\ ui.outputs = runs[r].generated

ExitCodeMessage == "ffmpeg finalizo con codigo"

\* The transcodeClip call of the run r fails on a non-zero exit code.
ExitCodeFailure(r) ==
    /\ runs[r].pc = "exec" /\ runs'[r].pc # "exec"
    /\ ui'.error.message = ExitCodeMessage

\* The transcodeClip call of the run r returns its bytes.
ReturnsBytes(r) == runs[r].pc = "del" /\ runs'[r].pc = "verify"

\* C33: a non-zero exit code makes transcodeClip fail without bytes: no clip
\* is made for the job, then or later; on success the bytes are read, then
\* the temporary output is deleted, and it is gone from the engine's working
\* storage when the bytes are returned.
C33_ExitCodeAndTemporaryOutput ==
    [][\A r \in RunIds :
        /\ ExitCodeFailure(r) =>
            /\ runs'[r].generated = runs[r].generated
            /\ ui'.outputs = ui.outputs
            /\ runs'[r].result = "Proceso interrumpido"
            /\ runs'[r].pc \in {"cleanup", "done"}
        /\ runs[r].pc \in {"cleanup", "done"} =>
            /\ runs'[r].generated \in {runs[r].generated, <<>>}
            /\ runs'[r].pc \in {"cleanup", "done"}
        /\ runs'[r].pc = "verify" => runs[r].pc \in {"del", "verify"}
        /\ runs'[r].pc = "del" => runs[r].pc \in {"exec", "del"}
        /\ ReturnsBytes(r) =>
            OutputPath(runs[r].index + 1) \notin engines'[runs[r].processor].files]_vars

\* The second job failed on its exit code: the run is interrupted with the
\* clip of the first job only.
C33_Witness ==
    \E r \in RunIds :
        /\ runs[r].pc = "done" /\ runs[r].result = "Proceso interrumpido"
        /\ ui.error.message = ExitCodeMessage
        /\ runs[r].transcoded = <<1, 2>>
        /\ Len(runs[r].generated) = 1 /\ runs[r].generated[1].job = 1
        /\ ui.outputs = runs[r].generated

\* The transcodeClip call of the run r settles, with bytes or with a failure.
TranscodeSettles(r) == runs[r].pc \in TranscodePcs /\ runs'[r].pc \notin TranscodePcs

\* C38: when a transcodeClip call settles, with bytes or with a failure
\* (non-zero exit code, read error), the temporary output of its job is not
\* in the engine's working storage.
C38_NoTemporaryOutputLeft ==
    [][\A r \in RunIds :
        TranscodeSettles(r) =>
            OutputPath(runs[r].index + 1) \notin engines'[runs[r].processor].files]_vars

(***************************************************************************)
(* Properties of the progress display                                      *)
(***************************************************************************)
Same(a, b) == a.num * b.den = b.num * a.den

\* The thousandths of the engine's fraction, held to 0..1000.
ClampedThousandths(event) ==
    LET n == (event.num * 1000) \div event.den
    IN IF n < 0 THEN 0 ELSE IF n > 1000 THEN 1000 ELSE n

\* C34: in a multi-job run the progress displayed is (index of the current
\* job + the engine's fraction held to 0..1) / total jobs, in single mode the
\* job's own fraction held to 0..1; it is within 0 % and 100 %; an event that
\* arrives while no run is active changes nothing.
C34_Progress ==
    (call.fn = "onProgress" /\ returned.done) =>
        LET context == call.context
            fraction == ClampedThousandths(call.event)
            shown == returned.value
        IN /\ context.mode = "queue" =>
                Same(shown, Ratio((context.clipIndex * 1000 + fraction) * 100,
                                  1000 * context.totalClips))
           /\ context.mode = "single" => Same(shown, Ratio(fraction, 10))
           /\ context.mode = "idle" => shown = call.shown
           /\ shown.den > 0
           /\ 0 <= shown.num /\ shown.num <= 100 * shown.den

\* The second of two jobs reports a fraction of 1.5: 100 % is displayed.
C34_Witness ==
    /\ call.fn = "onProgress" /\ returned.done
    /\ call.context = [mode |-> "queue", clipIndex |-> 1, totalClips |-> 2]
    /\ call.event = Ratio(1500, 1000)
    /\ Same(returned.value, Ratio(100, 1))

(***************************************************************************)
(* Properties of the output verifier                                       *)
(***************************************************************************)
SettlingKinds == {"canplay", "error", "timeout"}

\* The place in the events of the first one that settles the probe, or 0.
FirstSettling(events) ==
    IF \E k \in 1..Len(events) : events[k].kind \in SettlingKinds
    THEN CHOOSE k \in 1..Len(events) :
            /\ events[k].kind \in SettlingKinds
            /\ \A j \in 1..(k - 1) : events[j].kind \notin SettlingKinds
    ELSE 0

\* The finite durations read before the place k of the events.
ReadingsBefore(events, k) ==
    {j \in 1..(k - 1) : events[j].kind = "loadedmetadata" /\ events[j].duration.known}

\* C32: the probe resolves exactly once, with the first of the ready-to-play
\* signal (playable), the decode error and the timeout (both not playable);
\* later events do not change the result; the duration reported is the last
\* finite one read before settling and is null if there was none; and the
\* probe always resolves.
C32_ProbeSettlesOnce ==
    /\ [](call.fn = "verifyOutputBlob" =>
            LET k == FirstSettling(call.events)
                readings == ReadingsBefore(call.events, k)
            IN /\ returned.done = (k # 0)
               /\ call.resolves = (IF k = 0 THEN 0 ELSE 1)
               /\ call.settled = returned.done
               /\ returned.done =>
                    /\ returned.value.playable = (call.events[k].kind = "canplay")
                    /\ (returned.value.errorMessage = "none") = returned.value.playable
                    /\ (returned.value.errorMessage = "Tiempo de verificacion agotado")
                         = (call.events[k].kind = "timeout")
                    /\ returned.value.durationSeconds.known = (readings # {})
                    /\ readings # {} =>
                         \E j \in readings :
                            /\ \A i \in readings : i <= j
                            /\ returned.value.durationSeconds = call.events[j].duration)
    /\ <>(call.fn = "verifyOutputBlob" => returned.done)

\* The probe was settled by the decode error after a duration was read; the
\* ready-to-play signal came afterwards and changed nothing.
C32_Witness ==
    /\ call.fn = "verifyOutputBlob" /\ returned.done
    /\ Len(call.events) = 3
    /\ call.events[1].kind = "loadedmetadata" /\ call.events[1].duration = Duration(2)
    /\ call.events[2].kind = "error" /\ call.events[3].kind = "canplay"
    /\ ~returned.value.playable /\ returned.value.durationSeconds = Duration(2)

(***************************************************************************)
(* Further properties of the validators and of the output names            *)
(***************************************************************************)
EndNotice(row) == Notice(row, "fin vacio")

\* The rows of a multi-range form with a typed start and a blank end.
OpenEndedRows(f) ==
    {k \in 1..Len(f.multiCuts) :
        f.multiCuts[k].startInput.kind # "blank" /\ f.multiCuts[k].endInput.kind = "blank"}

\* C35: in multi-range validation a row with a typed start and a blank end
\* ends at the total duration T, with a notice, when T is known: it is cut
\* from its start to T when the start leaves more than the tolerance before
\* T; when T is unknown such a row makes the whole validation fail with no
\* jobs, whatever the other rows are.
C35_BlankEnd ==
    (form.kind = "multi" /\ validation # NoValidation) =>
        \A k \in OpenEndedRows(form) :
            LET T == form.videoDurationSeconds
                startInput == form.multiCuts[k].startInput
            IN /\ ~T.known => ~validation.ok /\ validation.jobs = <<>>
               /\ (T.known /\ validation.ok) =>
                    /\ EndNotice(k) \in Range(validation.notices)
                    /\ \A job \in Range(validation.jobs) :
                          job.index + 1 = k =>
                            /\ job.startSeconds = startInput.value
                            /\ JobEnd(job) = T.seconds
                    /\ startInput.value + DURATION_EPSILON < T.seconds =>
                          \E job \in Range(validation.jobs) : job.index + 1 = k

\* T is known, the first row is typed in full and the second has a blank
\* end: its cut runs from its start to T.
C35_Witness ==
    /\ form.kind = "multi" /\ validation.ok
    /\ form.videoDurationSeconds = Duration(MaxTime)
    /\ Len(form.multiCuts) = 2 /\ OpenEndedRows(form) = {2}
    /\ Len(validation.jobs) = 2
    /\ validation.jobs[2].startSeconds = 2
    /\ JobEnd(validation.jobs[2]) = MaxTime

\* C36: a run during which a cancel request was accepted, at whatever point,
\* never ends with the completed status and records no history entry.
C36_CancelledNeverCompletes ==
    [][\A r \in RunIds :
        runs[r].cancelAt # "none" =>
            /\ ~Completes(r)
            /\ ui'.history = ui.history]_vars

CancelMessage == "Procesamiento cancelado por el usuario"

\* The cancel request reaches the run r while it waits at the pause gate.
CancelledAtGate(r) == runs[r].pc = "gate" /\ runs[r].cancelAt = "gate"

\* C37: a cancel that reaches a run waiting at the pause gate clears the
\* paused flag; the run starts no other job, leaves the gate as cancelled,
\* and does leave it: it comes to its end.
C37_CancelOpensGate ==
    /\ [][\A r \in RunIds :
            /\ (runs[r].pc = "gate" /\ runs[r].cancelAt = "none" /\ runs'[r].cancelAt = "gate")
                 => ~refs'.queueControl.paused /\ refs'.queueControl.cancelled
            /\ runs[r].cancelAt = "gate" => ~StartsTranscode(r)
            /\ (CancelledAtGate(r) /\ runs'[r].pc # "gate") =>
                 /\ runs'[r].result = "Proceso interrumpido"
                 /\ ui'.error.message = CancelMessage
                 /\ runs'[r].pc \in {"cleanup", "done"}]_vars
    /\ \A r \in RunIds : CancelledAtGate(r) ~> (runs[r].pc = "done")

\* A run of two jobs was paused during its first job, cancelled at the gate
\* of the second and has ended as cancelled with one clip.
C37_Witness ==
    \E r \in RunIds :
        /\ runs[r].pc = "done" /\ runs[r].cancelAt = "gate" /\ runs[r].waited
        /\ runs[r].jobs = 2 /\ runs[r].transcoded = <<1>>
        /\ runs[r].result = "Proceso interrumpido"
        /\ ui.error.message = CancelMessage
        /\ ~refs.queueControl.paused

\* The sum of two times.
Plus(a, b) ==
    Real(a.whole + b.whole + (a.decimals + b.decimals) \div 10000,
         (a.decimals + b.decimals) % 10000)

\* C39: two distinct jobs of one validation result have distinct output
\* names, for every naming pattern, those without {idx} or a time token
\* included.  Stated for a job and the job that follows it in an automatic
\* split: the next index, starting where the first ends, of the same length.
C39_DistinctNames ==
    (call.fn = "buildOutputName" /\ returned.done) =>
        returned.value # buildOutputName(call.pattern, call.sourceName, call.index + 1,
                                         Plus(call.startSeconds, call.durationSeconds),
                                         call.durationSeconds)
====
